---------------------------- MODULE Spec2Model ----------------------------
(***************************************************************************)
(* A model of the 6502 computer: the CPU6502 instruction interpreter, the  *)
(* Memory bus with its two memory-mapped windows (VIC text screen and PIA  *)
(* keyboard / file registers) and the reset circuit.                       *)
(*                                                                         *)
(* The machine is a record m = [reg, cycles, ram, vic, pia, log].  Every   *)
(* C++ member function is an operator that takes the machine (or the part  *)
(* of it the function touches) and returns the machine after the call,     *)
(* together with the returned value when there is one ([v |-> ..,          *)
(* m |-> ..]).  The 64 KiB ram_ vector and the 1000-cell screen_buffer_    *)
(* are kept as finite maps that hold only the cells differing from the     *)
(* fill value (0x00 for ram_, 0x20 for the screen); a read of a cell that  *)
(* is not in the map returns the fill value.  log is the list of bus       *)
(* accesses made so far by the operation in progress.                      *)
(***************************************************************************)
EXTENDS Integers, Sequences, FiniteSets, TLC

VARIABLES reg, cycles, ram, vic, pia, log, last, pushed, phase, count

vars == <<reg, cycles, ram, vic, pia, log, last, pushed, phase, count>>

(***************************************************************************)
(* Program constants                                                       *)
(***************************************************************************)
kCarry == 1
kZero == 2
kInterrupt == 4
kDecimal == 8
kBreak == 16
kUnused == 32
kOverflow == 64
kNegative == 128

kPiaMemoryStart == 56320
kPiaMemoryEnd == 56353
kKeyboardBufferSize == 32
kPortAData == 0
kPortADdr == 1
kPortAControl == 2
kPortBData == 3
kPortBDdr == 4
kPortBControl == 5
kFileCommand == 16
kFileStatus == 17
kFileAddrLo == 18
kFileAddrHi == 19
kFilenameStart == 20
kFileEndAddrLo == 32
kFileEndAddrHi == 33
kFileLoadCommand == 1
kFileSaveCommand == 2
kFileIdle == 0
kFileInProgress == 1
kFileSuccess == 2
kFileError == 255
kDataAvailable == 1
kBufferFull == 2
kInterruptFlag == 4
kInterruptEnable == 8

kScreenWidth == 40
kScreenHeight == 25
kScreenSize == kScreenWidth * kScreenHeight
kScreenMemoryStart == 1024
kScreenMemoryEnd == 2023
kSpace == 32

ResetVector == 65532
IrqVector == 65534
StackPage == 256
RomBase == 61440

Byte == 0 .. 255
Word16(n) == n % 65536
Word8(n) == n % 256

(***************************************************************************)
(* Sequencing.  An operation that returns a value yields [v |-> the value, *)
(* m |-> the object (machine, PIA, status byte) after the call]; Bind      *)
(* hands both to the statements that follow, Then hands on the object of   *)
(* an operation that returns nothing.                                      *)
(***************************************************************************)
Bind(r, F(_, _)) == F(r.v, r.m)

Then(m, F(_)) == F(m)

(***************************************************************************)
(* Bitwise operators of C on bytes                                         *)
(***************************************************************************)
\* (a & bit) != 0 for a one-bit mask
TestBit(a, bit) == (a \div bit) % 2 = 1

\* on ? (a | bit) : (a & ~bit) for a one-bit mask
WithBit(a, bit, on) ==
    a - (IF TestBit(a, bit) THEN bit ELSE 0) + (IF on THEN bit ELSE 0)

\* bit i of a
Bit(a, i) == (a \div (2 ^ i)) % 2

\* the byte whose bit i is f[i]
FromBits(f) ==
    f[0] + 2 * f[1] + 4 * f[2] + 8 * f[3] + 16 * f[4] + 32 * f[5] + 64 * f[6]
    + 128 * f[7]

BitAnd(a, b) == FromBits([i \in 0 .. 7 |-> Bit(a, i) * Bit(b, i)])

BitOr(a, b) == FromBits([i \in 0 .. 7 |-> IF Bit(a, i) + Bit(b, i) > 0 THEN 1 ELSE 0])

BitXor(a, b) == FromBits([i \in 0 .. 7 |-> (Bit(a, i) + Bit(b, i)) % 2])

(***************************************************************************)
(* Sparse stores: ram_ (fill 0x00) and screen_buffer_ (fill 0x20)          *)
(***************************************************************************)
CellAt(store, i, fill) == IF i \in DOMAIN store THEN store[i] ELSE fill

CellPut(store, i, v, fill) ==
    IF v = fill
    THEN [j \in DOMAIN store \ {i} |-> store[j]]
    ELSE [j \in DOMAIN store \cup {i} |-> IF j = i THEN v ELSE store[j]]

EmptyStore == [j \in {} |-> 0]

(***************************************************************************)
(* VIC: the text screen                                                    *)
(***************************************************************************)
\* isScreenAddress as it would be had the window been the whole kilobyte
isScreenAddress_wholeKilobyte(address) ==
    address >= kScreenMemoryStart /\ address <= kScreenMemoryStart + 1023

isScreenAddress(address) ==
    address >= kScreenMemoryStart /\ address <= kScreenMemoryEnd

VIC_addressToOffset(address) == Word16(address - kScreenMemoryStart + 65536)

\* writeScreen as it would be had it not marked the screen dirty
writeScreen_withoutDirty(v, address, value) ==
    IF ~isScreenAddress(address) THEN v
    ELSE IF VIC_addressToOffset(address) < kScreenSize
    THEN [v EXCEPT !.screen_buffer_ =
                       CellPut(@, VIC_addressToOffset(address), value, kSpace)]
    ELSE v

\* VIC::writeScreen: the vic after the call
writeScreen(v, address, value) ==
    IF ~isScreenAddress(address) THEN v
    ELSE IF VIC_addressToOffset(address) < kScreenSize
    THEN [v EXCEPT !.screen_buffer_ =
                       CellPut(@, VIC_addressToOffset(address), value, kSpace),
                   !.dirty_flag_ = TRUE]
    ELSE v

\* VIC::readScreen
readScreen(v, address) ==
    IF ~isScreenAddress(address) THEN 0
    ELSE IF VIC_addressToOffset(address) < kScreenSize
    THEN CellAt(v.screen_buffer_, VIC_addressToOffset(address), kSpace)
    ELSE 0

\* VIC::coordinatesToOffset
coordinatesToOffset(x, y) == Word16(y * kScreenWidth + x)

\* VIC::getCharacterAt
getCharacterAt(v, x, y) ==
    IF x >= kScreenWidth \/ y >= kScreenHeight THEN 0
    ELSE CellAt(v.screen_buffer_, coordinatesToOffset(x, y), kSpace)

\* VIC::isDirty
isDirty(v) == v.dirty_flag_

\* VIC::clearDirty
clearDirty(v) == [v EXCEPT !.dirty_flag_ = FALSE]

\* VIC::VIC(): clearScreen() fills with spaces, homes the cursor, sets dirty
VIC_Init ==
    [screen_buffer_ |-> EmptyStore, cursor_x_ |-> 0, cursor_y_ |-> 0,
     dirty_flag_ |-> TRUE]

(***************************************************************************)
(* PIA: keyboard FIFO and file registers                                   *)
(***************************************************************************)
isPiaAddress(address) ==
    address >= kPiaMemoryStart /\ address <= kPiaMemoryEnd

PIA_addressToOffset(address) == Word8(address - kPiaMemoryStart + 65536)

hasKeypress(p) == p.buffer_count_ > 0

isBufferFull(p) == p.buffer_count_ >= kKeyboardBufferSize

\* updateControlFlags as it would be had the interrupt flag, once set, been
\* left alone
updateControlFlags_stickyInterrupt(p) ==
    [p EXCEPT !.port_a_control_ =
        WithBit(WithBit(WithBit(@, kDataAvailable, hasKeypress(p)),
                        kBufferFull, isBufferFull(p)),
                kInterruptFlag,
                TestBit(@, kInterruptFlag)
                \/ (hasKeypress(p) /\ TestBit(@, kInterruptEnable)))]

\* PIA::updateControlFlags: bits 0 and 1 are cleared and set again from the
\* buffer; bit 2 follows "key waiting and bit 3 set"
updateControlFlags(p) ==
    [p EXCEPT !.port_a_control_ =
        WithBit(WithBit(WithBit(@, kDataAvailable, hasKeypress(p)),
                        kBufferFull, isBufferFull(p)),
                kInterruptFlag, hasKeypress(p) /\ TestBit(@, kInterruptEnable))]

\* getKeypress as it would be had it not looked whether a key is waiting:
\* buffer_count_ is a uint8_t
getKeypress_withoutEmptyCheck(p) ==
    [v |-> p.keyboard_buffer_[p.buffer_tail_],
     m |-> updateControlFlags(
             [p EXCEPT !.buffer_tail_ = (@ + 1) % kKeyboardBufferSize,
                       !.buffer_count_ = Word8(@ + 255)])]

\* PIA::getKeypress
getKeypress(p) ==
    IF ~hasKeypress(p) THEN [v |-> 0, m |-> p]
    ELSE [v |-> p.keyboard_buffer_[p.buffer_tail_],
          m |-> updateControlFlags(
                  [p EXCEPT !.buffer_tail_ = (@ + 1) % kKeyboardBufferSize,
                            !.buffer_count_ = @ - 1])]

\* addKeypress as it would be had a full buffer given up its oldest key
addKeypress_overwritesWhenFull(p, ascii_code) ==
    updateControlFlags(
      [p EXCEPT !.keyboard_buffer_[p.buffer_head_] = ascii_code,
                !.buffer_head_ = (@ + 1) % kKeyboardBufferSize,
                !.buffer_tail_ = IF isBufferFull(p)
                                 THEN (@ + 1) % kKeyboardBufferSize ELSE @,
                !.buffer_count_ = IF isBufferFull(p) THEN @ ELSE @ + 1])

\* PIA::addKeypress
addKeypress(p, ascii_code) ==
    IF isBufferFull(p) THEN p
    ELSE updateControlFlags(
           [p EXCEPT !.keyboard_buffer_[p.buffer_head_] = ascii_code,
                     !.buffer_head_ = (@ + 1) % kKeyboardBufferSize,
                     !.buffer_count_ = @ + 1])

\* PIA::clearKeyboardBuffer
clearKeyboardBuffer(p) ==
    updateControlFlags(
      [p EXCEPT !.keyboard_buffer_ = [i \in 0 .. kKeyboardBufferSize - 1 |-> 0],
                !.buffer_head_ = 0, !.buffer_tail_ = 0, !.buffer_count_ = 0])

\* PIA::getBufferCount
getBufferCount(p) == p.buffer_count_

\* writeFilename with the status register writable
writeFilename_statusWritable(p, offset, value) ==
    IF offset >= kFilenameStart /\ offset < kFilenameStart + 12
    THEN [p EXCEPT !.filename_[offset - kFilenameStart] = value]
    ELSE IF offset = 17 THEN [p EXCEPT !.file_status_ = value]
    ELSE p

\* the register written at an offset that is none of the named ones: the
\* default branch of the switch in PIA::writePia
writeFilename(p, offset, value) ==
    IF offset >= kFilenameStart /\ offset < kFilenameStart + 12
    THEN [p EXCEPT !.filename_[offset - kFilenameStart] = value]
    ELSE p

\* PIA::writePia: the pia after the call
writePia(p, address, value) ==
    IF ~isPiaAddress(address) THEN p
    ELSE LET offset == PIA_addressToOffset(address)
         IN CASE offset = kPortAData -> [p EXCEPT !.port_a_data_ = value]
              [] offset = kPortADdr -> [p EXCEPT !.port_a_ddr_ = value]
              [] offset = kPortAControl ->
                    updateControlFlags([p EXCEPT !.port_a_control_ = value])
              [] offset = kPortBData -> [p EXCEPT !.port_b_data_ = value]
              [] offset = kPortBDdr -> [p EXCEPT !.port_b_ddr_ = value]
              [] offset = kPortBControl -> [p EXCEPT !.port_b_control_ = value]
              [] offset = kFileCommand ->
                    [p EXCEPT !.file_command_ = value,
                              !.file_status_ =
                                  IF value = kFileLoadCommand \/ value = kFileSaveCommand
                                  THEN kFileInProgress ELSE @]
              [] offset = kFileAddrLo ->
                    [p EXCEPT !.file_address_ = (@ \div 256) * 256 + value]
              [] offset = kFileAddrHi ->
                    [p EXCEPT !.file_address_ = (@ % 256) + value * 256]
              [] offset = kFileEndAddrLo ->
                    [p EXCEPT !.file_end_address_ = (@ \div 256) * 256 + value]
              [] offset = kFileEndAddrHi ->
                    [p EXCEPT !.file_end_address_ = (@ % 256) + value * 256]
              [] OTHER -> writeFilename(p, offset, value)

\* PIA::readPia
readPia(p, address) ==
    IF ~isPiaAddress(address) THEN [v |-> 0, m |-> p]
    ELSE LET offset == PIA_addressToOffset(address)
         IN CASE offset = kPortAData ->
                    IF hasKeypress(p)
                    THEN Bind(getKeypress(p),
                              LAMBDA key, q : [v |-> key, m |-> updateControlFlags(q)])
                    ELSE [v |-> 0, m |-> p]
              [] offset = kPortADdr -> [v |-> p.port_a_ddr_, m |-> p]
              [] offset = kPortAControl ->
                    Then(updateControlFlags(p),
                         LAMBDA q : [v |-> q.port_a_control_, m |-> q])
              [] offset = kPortBData -> [v |-> p.port_b_data_, m |-> p]
              [] offset = kPortBDdr -> [v |-> p.port_b_ddr_, m |-> p]
              [] offset = kPortBControl -> [v |-> p.port_b_control_, m |-> p]
              [] offset = kFileStatus -> [v |-> p.file_status_, m |-> p]
              [] OTHER -> [v |-> 0, m |-> p]

\* PIA::PIA(), then setMemoryInterface(&memory) in Computer6502::Computer6502
PIA_Init ==
    [keyboard_buffer_ |-> [i \in 0 .. kKeyboardBufferSize - 1 |-> 0],
     buffer_head_ |-> 0, buffer_tail_ |-> 0, buffer_count_ |-> 0,
     port_a_data_ |-> 0, port_a_ddr_ |-> 0, port_a_control_ |-> 0,
     port_b_data_ |-> 0, port_b_ddr_ |-> 0, port_b_control_ |-> 0,
     file_command_ |-> kFileIdle, file_status_ |-> kFileIdle,
     file_address_ |-> 0, file_end_address_ |-> 0,
     filename_ |-> [i \in 0 .. 11 |-> 0]]

(***************************************************************************)
(* Memory: the bus                                                         *)
(***************************************************************************)
\* Memory::read
Memory_read(m, address) ==
    IF isPiaAddress(address)
    THEN Bind(readPia(m.pia, address),
              LAMBDA value, p :
                 [v |-> value,
                  m |-> [m EXCEPT !.pia = p, !.log = Append(@, <<"r", address>>)]])
    ELSE [v |-> IF isScreenAddress(address)
                THEN readScreen(m.vic, address)
                ELSE CellAt(m.ram, address, 0),
          m |-> [m EXCEPT !.log = Append(@, <<"r", address>>)]]

\* Memory::write
Memory_write(m, address, value) ==
    IF isPiaAddress(address)
    THEN [m EXCEPT !.pia = writePia(@, address, value),
                   !.log = Append(@, <<"w", address>>)]
    ELSE IF isScreenAddress(address)
    THEN [m EXCEPT !.vic = writeScreen(@, address, value),
                   !.log = Append(@, <<"w", address>>)]
    ELSE [m EXCEPT !.ram = CellPut(@, address, value, 0),
                   !.log = Append(@, <<"w", address>>)]

\* readWord as it would be had the high byte been taken straight from ram_
Memory_readWord_highFromRam(m, address) ==
    Bind(Memory_read(m, address),
         LAMBDA low, m1 :
            [v |-> low + CellAt(m1.ram, Word16(address + 1), 0) * 256,
             m |-> [m1 EXCEPT !.log = Append(@, <<"r", Word16(address + 1)>>)]])

\* Memory::readWord: low byte first
Memory_readWord(m, address) ==
    Bind(Memory_read(m, address),
         LAMBDA low, m1 :
            Bind(Memory_read(m1, Word16(address + 1)),
                 LAMBDA high, m2 : [v |-> low + high * 256, m |-> m2]))

\* writeWord as it would be had it gone through Memory::write
Memory_writeWord_throughWrite(m, address, value) ==
    Memory_write(Memory_write(m, address, value % 256),
                 Word16(address + 1), (value \div 256) % 256)

\* Memory::writeWord: straight into ram_, no window dispatch.  ram_[address + 1]
\* is indexed with an int: at address 0xFFFF the index is 0x10000.
Memory_writeWord(m, address, value) ==
    [m EXCEPT !.ram = CellPut(CellPut(@, address, value % 256, 0),
                              address + 1, (value \div 256) % 256, 0)]

\* Memory::loadProgram: ram_[start_address + i] = program[i] for each i,
\* straight into ram_, no window dispatch
Memory_loadProgram(m, program, start_address) ==
    [m EXCEPT !.ram =
        [a \in (DOMAIN @ \cup {start_address + i - 1 : i \in DOMAIN program})
               \ {start_address + i - 1 :
                     i \in {j \in DOMAIN program : program[j] = 0}} |->
            IF a - start_address + 1 \in DOMAIN program
            THEN program[a - start_address + 1] ELSE @[a]]]

(***************************************************************************)
(* PIA: file operations.  memory_ is the bus Computer6502::Computer6502    *)
(* hands over with setMemoryInterface, so it is never null.  host is what  *)
(* the build and the host application make of the request: "console" is    *)
(* the build without QT_GUI, "cancelled" an empty file dialog,             *)
(* "failed_early" a file that cannot be opened, sized, read (load) or      *)
(* created (save), "failed_late" a save whose write fails, "done" a        *)
(* request that goes through; buffer is the content of the file loaded.    *)
(***************************************************************************)
hasFileOperation(p) ==
    /\ p.file_command_ = kFileLoadCommand \/ p.file_command_ = kFileSaveCommand
    /\ p.file_status_ = kFileInProgress

\* file_status_ = kFileError; return
FileFailed(m) ==
    [m |-> [m EXCEPT !.pia.file_status_ = kFileError], hung |-> FALSE]

\* file_command_ = kFileIdle; file_status_ = kFileSuccess
FileDone(m) ==
    [m |-> [m EXCEPT !.pia.file_command_ = kFileIdle,
                     !.pia.file_status_ = kFileSuccess],
     hung |-> FALSE]

RECURSIVE LoadBytes(_, _, _)
\* memory_->write(current_address++, byte) for each byte; current_address is
\* a uint16_t
LoadBytes(m, current_address, buffer) ==
    IF buffer = <<>> THEN m
    ELSE LoadBytes(Memory_write(m, current_address, Head(buffer)),
                   Word16(current_address + 1), Tail(buffer))

RECURSIVE SaveBytes(_, _, _)
\* buffer.push_back(memory_->read(addr)) for addr = file_address_ ..
\* file_end_address_
SaveBytes(m, addr, end) ==
    IF addr > end THEN m
    ELSE CHOOSE after \in {SaveBytes(m1, addr + 1, end) :
                               m1 \in {Memory_read(m, addr).m}} : TRUE

\* the load branch of PIA::processFileOperations
processFileLoad(m, host, buffer) ==
    IF host \in {"console", "cancelled", "failed_early", "failed_late"}
    THEN FileFailed(m)
    ELSE FileDone(LoadBytes(m, m.pia.file_address_, buffer))

\* the save branch.  addr is a uint16_t: with file_end_address_ = 0xFFFF the
\* condition addr <= file_end_address_ never fails and the loop does not
\* end; hung tells that the call does not return
processFileSave(m, host) ==
    IF m.pia.file_end_address_ < m.pia.file_address_ THEN FileFailed(m)
    ELSE IF host \in {"console", "cancelled", "failed_early"} THEN FileFailed(m)
    ELSE IF m.pia.file_end_address_ = 65535 THEN [m |-> m, hung |-> TRUE]
    ELSE Then(SaveBytes(m, m.pia.file_address_, m.pia.file_end_address_),
              LAMBDA m1 : IF host = "failed_late" THEN FileFailed(m1)
                          ELSE FileDone(m1))

\* PIA::processFileOperations: [m |-> the machine after, hung |-> the call
\* does not return]
processFileOperations(m, host, buffer) ==
    IF ~hasFileOperation(m.pia) THEN [m |-> m, hung |-> FALSE]
    ELSE IF m.pia.file_command_ = kFileLoadCommand
    THEN processFileLoad(m, host, buffer)
    ELSE processFileSave(m, host)

(***************************************************************************)
(* CPU6502: flags, fetch and stack helpers                                 *)
(***************************************************************************)
\* CPU6502::setFlag on a status byte
setFlag(P, flag, value) == WithBit(P, flag, value)

getFlag(P, flag) == TestBit(P, flag)

\* updateZeroNegativeFlags as it would be had it set Z from the low seven
\* bits
updateZeroNegativeFlags_zeroOfSevenBits(P, value) ==
    setFlag(setFlag(P, kZero, value % 128 = 0), kNegative, TestBit(value, 128))

\* CPU6502::updateZeroNegativeFlags
updateZeroNegativeFlags(P, value) ==
    setFlag(setFlag(P, kZero, value = 0), kNegative, TestBit(value, 128))

\* CPU6502::readByte: cycles_++; return mem_.read(reg.PC++)
readByte(m) ==
    Bind(Memory_read(m, m.reg.PC),
         LAMBDA value, m1 :
            [v |-> value,
             m |-> [m1 EXCEPT !.reg.PC = Word16(@ + 1), !.cycles = @ + 1]])

\* CPU6502::readWord
readWord(m) ==
    Bind(Memory_readWord(m, m.reg.PC),
         LAMBDA word, m1 :
            [v |-> word,
             m |-> [m1 EXCEPT !.reg.PC = Word16(@ + 2), !.cycles = @ + 2]])

\* CPU6502::pushByte
pushByte(m, value) ==
    [Memory_write(m, StackPage + m.reg.SP, value)
        EXCEPT !.reg.SP = Word8(@ + 255), !.cycles = @ + 1]

\* pullByte as it would be had the byte been read before SP moves
pullByte_readsBeforeIncrement(m) ==
    Bind(Memory_read(m, StackPage + m.reg.SP),
         LAMBDA value, m1 :
            [v |-> value,
             m |-> [m1 EXCEPT !.reg.SP = Word8(@ + 1), !.cycles = @ + 1]])

\* pullByte as it would be had the address been formed from an SP that is
\* not wrapped to 8 bits
pullByte_withoutWrap(m) ==
    Memory_read([m EXCEPT !.reg.SP = Word8(@ + 1), !.cycles = @ + 1],
                StackPage + m.reg.SP + 1)

\* CPU6502::pullByte
pullByte(m) ==
    Memory_read([m EXCEPT !.reg.SP = Word8(@ + 1), !.cycles = @ + 1],
                StackPage + Word8(m.reg.SP + 1))

\* CPU6502::pushStack16: high byte first
pushStack16(m, value) ==
    pushByte(pushByte(m, (value \div 256) % 256), value % 256)

\* CPU6502::popStack16: low byte first
popStack16(m) ==
    Bind(pullByte(m),
         LAMBDA low_byte, m1 :
            Bind(pullByte(m1),
                 LAMBDA high_byte, m2 :
                    [v |-> high_byte * 256 + low_byte, m |-> m2]))

(***************************************************************************)
(* CPU6502: addressing.  The value returned is [address, page_crossed].    *)
(***************************************************************************)
\* (base_addr & 0xFF00) != (final_addr & 0xFF00)
checkPageBoundaryCrossed(base_addr, final_addr) ==
    base_addr \div 256 # final_addr \div 256

\* CPU6502::calculateAddress
calculateAddress(m, use_one_byte, offset) ==
    IF use_one_byte
    THEN Bind(Memory_read(m, m.reg.PC),
              LAMBDA zp, m1 :
                 [v |-> [address |-> Word8(zp + offset), page_crossed |-> FALSE],
                  m |-> m1])
    ELSE Bind(Memory_readWord(m, m.reg.PC),
              LAMBDA base_address, m1 :
                 [v |-> [address |-> Word16(base_address + offset),
                         page_crossed |->
                            IF offset # 0
                            THEN checkPageBoundaryCrossed(
                                    base_address, Word16(base_address + offset))
                            ELSE FALSE],
                  m |-> m1])

\* CPU6502::calculateRelativeAddress for the PC that already points past the
\* branch operand
calculateRelativeAddress(PC, offset) ==
    LET signed_offset == IF offset < 128 THEN offset ELSE offset - 256
        target_pc == Word16(PC + signed_offset + 65536)
    IN [target_pc |-> target_pc,
        page_crossed |-> checkPageBoundaryCrossed(PC, target_pc)]

\* calculateIndexedAddress as it would be had the high pointer byte been read
\* from zp_final + 1 without the wrap into page 0
calculateIndexedAddress_withoutWrap(m, offset) ==
    Bind(Memory_read(m, m.reg.PC),
         LAMBDA zp_addr, m1 :
            Bind(Memory_read(m1, (zp_addr + offset) % 256),
                 LAMBDA lo, m2 :
                    Bind(Memory_read(m2, ((zp_addr + offset) % 256) + 1),
                         LAMBDA hi, m3 :
                            [v |-> [address |-> lo + hi * 256,
                                    page_crossed |-> FALSE],
                             m |-> m3])))

\* CPU6502::calculateIndexedAddress, the (zp,X) mode: the returned extra cycle
\* is always 0
calculateIndexedAddress(m, offset) ==
    Bind(Memory_read(m, m.reg.PC),
         LAMBDA zp_addr, m1 :
            Bind(Memory_read(m1, Word8(zp_addr + offset)),
                 LAMBDA lo, m2 :
                    Bind(Memory_read(m2, Word8(Word8(zp_addr + offset) + 1)),
                         LAMBDA hi, m3 :
                            [v |-> [address |-> lo + hi * 256,
                                    page_crossed |-> FALSE],
                             m |-> m3])))

\* CPU6502::calculateIndirectAddress, the (zp),Y mode
calculateIndirectAddress(m, offset) ==
    Bind(Memory_read(m, m.reg.PC),
         LAMBDA zp_addr, m1 :
            Bind(Memory_read(m1, Word8(zp_addr)),
                 LAMBDA lo, m2 :
                    Bind(Memory_read(m2, Word8(zp_addr + 1)),
                         LAMBDA hi, m3 :
                            [v |-> [address |-> Word16(lo + hi * 256 + offset),
                                    page_crossed |->
                                       checkPageBoundaryCrossed(
                                          lo + hi * 256,
                                          Word16(lo + hi * 256 + offset))],
                             m |-> m3])))

(***************************************************************************)
(* CPU6502: ALU helpers.  addValues and subtractValues return              *)
(* [v |-> result byte, m |-> status byte after the call].                  *)
(***************************************************************************)
\* CPU6502::convertToBcd on a uint8_t
convertToBcd(value) ==
    LET v1 == IF value % 16 > 9 THEN Word8(value + 6) ELSE value
    IN IF (v1 \div 16) * 16 > 144 THEN Word8(v1 + 96) ELSE v1

\* addValues as it would be had the carry-in been left out of the sum
addValues_withoutCarryIn(P, val1, val2) ==
    LET sum == val1 + val2
    IN IF getFlag(P, kDecimal)
       THEN [v |-> convertToBcd(Word8(sum)),
             m |-> setFlag(P, kCarry, convertToBcd(Word8(sum)) > 153)]
       ELSE [v |-> sum % 256,
             m |-> setFlag(setFlag(P, kCarry, sum > 255), kOverflow,
                           val1 < 128 /\ val2 < 128 /\ sum > 127)]

\* CPU6502::addValues
addValues(P, val1, val2) ==
    LET sum == val1 + val2 + (IF getFlag(P, kCarry) THEN 1 ELSE 0)
    IN IF getFlag(P, kDecimal)
       THEN [v |-> convertToBcd(Word8(sum)),
             m |-> setFlag(P, kCarry, convertToBcd(Word8(sum)) > 153)]
       ELSE [v |-> sum % 256,
             m |-> setFlag(setFlag(P, kCarry, sum > 255), kOverflow,
                           val1 < 128 /\ val2 < 128 /\ sum > 127)]

\* subtractValues as it would be had it left the borrow out
subtractValues_withoutBorrow(P, val1, val2) ==
    LET diff == val1 - val2
    IN IF getFlag(P, kDecimal)
       THEN [v |-> convertToBcd(Word8(diff + 256)),
             m |-> setFlag(P, kCarry, convertToBcd(Word8(diff + 256)) > 153)]
       ELSE [v |-> Word8(diff + 256),
             m |-> setFlag(setFlag(P, kCarry, diff >= 0), kOverflow,
                           val1 < 128 /\ val2 < 128 /\ diff > 127)]

\* CPU6502::subtractValues: result is an int16_t
subtractValues(P, val1, val2) ==
    LET diff == val1 - val2 - (IF getFlag(P, kCarry) THEN 0 ELSE 1)
    IN IF getFlag(P, kDecimal)
       THEN [v |-> convertToBcd(Word8(diff + 256)),
             m |-> setFlag(P, kCarry, convertToBcd(Word8(diff + 256)) > 153)]
       ELSE [v |-> Word8(diff + 256),
             m |-> setFlag(setFlag(P, kCarry, diff >= 0), kOverflow,
                           val1 < 128 /\ val2 < 128 /\ diff > 127)]

\* CPU6502::compareValues: the status byte after the call
compareValues(P, val1, val2) ==
    setFlag(setFlag(setFlag(P, kCarry, val1 >= val2), kZero, val1 = val2),
            kNegative, TestBit(val1, 128))

\* the program counter moved without the wrap of a uint16_t
Advance_withoutWrap(m, pc_offset, cyc) ==
    [m EXCEPT !.reg.PC = @ + pc_offset, !.cycles = @ + cyc]

(***************************************************************************)
(* CPU6502: the handle<Op>Base functions.  address is the operand address  *)
(* the per-mode handler resolved; every one ends with reg.PC += pc_offset  *)
(* and cycles_ += cycles.                                                  *)
(***************************************************************************)
\* the common tail: reg.PC += pc_offset; cycles_ += cycles
Advance(m, pc_offset, cyc) ==
    [m EXCEPT !.reg.PC = Word16(@ + pc_offset), !.cycles = @ + cyc]

handleAdcBase(m, address, pc_offset, cyc) ==
    Bind(Memory_read(m, address),
         LAMBDA val, m1 :
            Bind(addValues(m1.reg.P, m1.reg.A, val),
                 LAMBDA result, P :
                    Advance([m1 EXCEPT !.reg.A = result,
                                       !.reg.P = updateZeroNegativeFlags(P, result)],
                            pc_offset, cyc)))

handleSbcBase(m, address, pc_offset, cyc) ==
    Bind(Memory_read(m, address),
         LAMBDA val, m1 :
            Bind(subtractValues(m1.reg.P, m1.reg.A, val),
                 LAMBDA result, P :
                    Advance([m1 EXCEPT !.reg.A = result,
                                       !.reg.P = updateZeroNegativeFlags(P, result)],
                            pc_offset, cyc)))

\* reg.A &= val, reg.A ^= val, reg.A |= val
LogicValue(fam, a, val) ==
    CASE fam = "And" -> BitAnd(a, val)
      [] fam = "Eor" -> BitXor(a, val)
      [] fam = "Ora" -> BitOr(a, val)

\* handleAndBase, handleEorBase, handleOraBase
handleLogicBase(m, fam, address, pc_offset, cyc) ==
    Bind(Memory_read(m, address),
         LAMBDA val, m1 :
            Then(LogicValue(fam, m1.reg.A, val),
                 LAMBDA a :
                    Advance([m1 EXCEPT !.reg.A = a,
                                       !.reg.P = updateZeroNegativeFlags(@, a)],
                            pc_offset, cyc)))

\* handleLoadBase as it would be had it read the operand twice
handleLoadBase_readsTwice(m, fam, address, pc_offset, cyc) ==
    Bind(Memory_read(Memory_read(m, address).m, address),
         LAMBDA val, m1 :
            Advance([m1 EXCEPT !.reg.A = IF fam = "Lda" THEN val ELSE @,
                               !.reg.X = IF fam = "Ldx" THEN val ELSE @,
                               !.reg.Y = IF fam = "Ldy" THEN val ELSE @,
                               !.reg.P = updateZeroNegativeFlags(@, val)],
                    pc_offset, cyc))

\* handleLdaBase, handleLdxBase, handleLdyBase
handleLoadBase(m, fam, address, pc_offset, cyc) ==
    Bind(Memory_read(m, address),
         LAMBDA val, m1 :
            Advance([m1 EXCEPT !.reg.A = IF fam = "Lda" THEN val ELSE @,
                               !.reg.X = IF fam = "Ldx" THEN val ELSE @,
                               !.reg.Y = IF fam = "Ldy" THEN val ELSE @,
                               !.reg.P = updateZeroNegativeFlags(@, val)],
                    pc_offset, cyc))

\* handleStaBase, handleStxBase, handleStyBase
handleStoreBase(m, fam, address, pc_offset, cyc) ==
    Advance(Memory_write(m, address,
                         CASE fam = "Sta" -> m.reg.A
                           [] fam = "Stx" -> m.reg.X
                           [] fam = "Sty" -> m.reg.Y),
            pc_offset, cyc)

\* handleCmpBase, handleCpxBase, handleCpyBase
handleCompareBase(m, fam, address, pc_offset, cyc) ==
    Bind(Memory_read(m, address),
         LAMBDA val, m1 :
            Advance([m1 EXCEPT !.reg.P =
                        compareValues(@, CASE fam = "Cmp" -> m1.reg.A
                                           [] fam = "Cpx" -> m1.reg.X
                                           [] fam = "Cpy" -> m1.reg.Y,
                                      val)],
                    pc_offset, cyc))

handleBitBase(m, address, pc_offset, cyc) ==
    Bind(Memory_read(m, address),
         LAMBDA val, m1 :
            Advance([m1 EXCEPT !.reg.P =
                        setFlag(setFlag(setFlag(@, kZero, BitAnd(m1.reg.A, val) = 0),
                                        kNegative, TestBit(val, 128)),
                                kOverflow, TestBit(val, 64))],
                    pc_offset, cyc))

\* The shift / rotate / increment of one byte, shared by the accumulator
\* handlers and the Base handlers: [v |-> new byte, m |-> status with carry]
ShiftValue(fam, P, val) ==
    CASE fam = "Asl" -> [v |-> Word8(val * 2) - (Word8(val * 2) % 2),
                         m |-> setFlag(P, kCarry, TestBit(val, 128))]
      [] fam = "Lsr" -> [v |-> val \div 2,
                         m |-> setFlag(P, kCarry, TestBit(val, 1))]
      [] fam = "Rol" -> [v |-> Word8(val * 2) + (IF getFlag(P, kCarry) THEN 1 ELSE 0),
                         m |-> setFlag(P, kCarry, TestBit(val, 128))]
      [] fam = "Ror" -> [v |-> (val \div 2) + (IF getFlag(P, kCarry) THEN 128 ELSE 0),
                         m |-> setFlag(P, kCarry, TestBit(val, 1))]
      [] fam = "Inc" -> [v |-> Word8(val + 1), m |-> P]
      [] fam = "Dec" -> [v |-> Word8(val + 255), m |-> P]

\* handleAslBase, handleLsrBase, handleRolBase, handleRorBase, handleIncBase,
\* handleDecBase: read, modify, write back, flags
handleModifyBase(m, fam, address, pc_offset, cyc) ==
    Bind(Memory_read(m, address),
         LAMBDA val, m1 :
            Bind(ShiftValue(fam, m1.reg.P, val),
                 LAMBDA result, P :
                    Advance([Memory_write(m1, address, result)
                                EXCEPT !.reg.P = updateZeroNegativeFlags(P, result)],
                            pc_offset, cyc)))

\* handleAslAccumulator, handleLsrAccumulator, handleRolAccumulator,
\* handleRorAccumulator
handleAccumulator(m, fam) ==
    Bind(ShiftValue(fam, m.reg.P, m.reg.A),
         LAMBDA result, P :
            [m EXCEPT !.reg.A = result,
                      !.reg.P = updateZeroNegativeFlags(P, result),
                      !.cycles = @ + 2])

handleJmpBase(m, address, pc_offset, cyc) ==
    [m EXCEPT !.reg.PC = address, !.cycles = @ + cyc]

handleJmpAbsolute(m) ==
    Bind(readWord(m), LAMBDA address, m1 : handleJmpBase(m1, address, 0, 3))

handleJmpIndirect(m) ==
    Bind(readWord(m),
         LAMBDA indirect_addr, m1 :
            Bind(Memory_readWord(m1, indirect_addr),
                 LAMBDA target_addr, m2 : handleJmpBase(m2, target_addr, 0, 5)))

(***************************************************************************)
(* CPU6502: the handlers without an operand address                        *)
(***************************************************************************)
\* handleBcc .. handleBvs: branch when the flag equals want
handleBranch(m, flag, want) ==
    Bind(readByte(m),
         LAMBDA offset, m1 :
            IF getFlag(m1.reg.P, flag) = want
            THEN Then(calculateRelativeAddress(m1.reg.PC, offset),
                      LAMBDA t :
                         [m1 EXCEPT !.reg.PC = t.target_pc,
                                    !.cycles = @ + 3 + (IF t.page_crossed THEN 1 ELSE 0)])
            ELSE [m1 EXCEPT !.cycles = @ + 2])

handleBrk(m) ==
    Then([m EXCEPT !.reg.PC = Word16(@ + 2), !.reg.P = setFlag(@, kBreak, TRUE)],
         LAMBDA m1 :
            Then(pushStack16(m1, m1.reg.PC),
                 LAMBDA m2 :
                    Then(pushByte(m2, m2.reg.P),
                         LAMBDA m3 :
                            Bind(Memory_readWord(
                                    [m3 EXCEPT !.reg.P = setFlag(@, kInterrupt, TRUE)],
                                    IrqVector),
                                 LAMBDA vec, m4 :
                                    [m4 EXCEPT !.reg.PC = vec, !.cycles = @ + 7]))))

\* handleClc, handleCld, handleCli, handleClv, handleSec, handleSed, handleSei
handleFlag(m, flag, value) ==
    [m EXCEPT !.reg.P = setFlag(@, flag, value), !.cycles = @ + 2]

handlePha(m) == [pushByte(m, m.reg.A) EXCEPT !.cycles = @ + 2]

\* pushByte(reg.P | kBreak | kUnused)
handlePhp(m) ==
    [pushByte(m, WithBit(WithBit(m.reg.P, kBreak, TRUE), kUnused, TRUE))
        EXCEPT !.cycles = @ + 2]

handlePla(m) ==
    Bind(pullByte(m),
         LAMBDA value, m1 :
            [m1 EXCEPT !.reg.A = value,
                       !.reg.P = updateZeroNegativeFlags(@, value),
                       !.cycles = @ + 3])

\* the pulled status as it would be without the final reg.P |= kUnused
PulledStatus_withoutUnused(pulled) ==
    WithBit(WithBit(pulled, kBreak, FALSE), kUnused, FALSE)

\* (pulled & ~(kBreak | kUnused)) | kUnused
PulledStatus(pulled) ==
    WithBit(WithBit(WithBit(pulled, kBreak, FALSE), kUnused, FALSE), kUnused, TRUE)

handlePlp(m) ==
    Bind(pullByte(m),
         LAMBDA pulled, m1 :
            [m1 EXCEPT !.reg.P = PulledStatus(pulled), !.cycles = @ + 3])

\* handleTax, handleTay, handleTsx, handleTxa, handleTxs, handleTya
handleTransfer(m, fam) ==
    LET v == CASE fam \in {"Tax", "Tay"} -> m.reg.A
               [] fam \in {"Txa", "Txs"} -> m.reg.X
               [] fam = "Tya" -> m.reg.Y
               [] fam = "Tsx" -> m.reg.SP
    IN [m EXCEPT !.reg.X = IF fam \in {"Tax", "Tsx"} THEN v ELSE @,
                 !.reg.Y = IF fam = "Tay" THEN v ELSE @,
                 !.reg.A = IF fam \in {"Txa", "Tya"} THEN v ELSE @,
                 !.reg.SP = IF fam = "Txs" THEN v ELSE @,
                 !.reg.P = IF fam = "Txs" THEN @ ELSE updateZeroNegativeFlags(@, v),
                 !.cycles = @ + 2]

\* handleInx, handleIny, handleDex, handleDey
handleIncDecRegister(m, fam) ==
    LET v == CASE fam = "Inx" -> Word8(m.reg.X + 1)
               [] fam = "Dex" -> Word8(m.reg.X + 255)
               [] fam = "Iny" -> Word8(m.reg.Y + 1)
               [] fam = "Dey" -> Word8(m.reg.Y + 255)
    IN [m EXCEPT !.reg.X = IF fam \in {"Inx", "Dex"} THEN v ELSE @,
                 !.reg.Y = IF fam \in {"Iny", "Dey"} THEN v ELSE @,
                 !.reg.P = updateZeroNegativeFlags(@, v),
                 !.cycles = @ + 2]

handleNop(m) == [m EXCEPT !.cycles = @ + 2]

\* the return address is taken before readWord moves PC
handleJsr(m) ==
    Bind(readWord(m),
         LAMBDA target_address, m1 :
            [pushStack16(m1, Word16(m.reg.PC + 1))
                EXCEPT !.reg.PC = target_address, !.cycles = @ + 6])

\* handleRts as it would be had it continued at the pulled address itself
handleRts_withoutIncrement(m) ==
    Bind(popStack16(m),
         LAMBDA return_address, m1 :
            [m1 EXCEPT !.reg.PC = return_address, !.cycles = @ + 6])

handleRts(m) ==
    Bind(popStack16(m),
         LAMBDA return_address, m1 :
            [m1 EXCEPT !.reg.PC = Word16(return_address + 1), !.cycles = @ + 6])

\* handleRti as it would be had it added 1 to the pulled address, as
\* handleRts does
handleRti_incrementsReturn(m) ==
    Bind(pullByte(m),
         LAMBDA pulled, m1 :
            Bind(popStack16([m1 EXCEPT !.reg.P = PulledStatus(pulled)]),
                 LAMBDA return_address, m2 :
                    [m2 EXCEPT !.reg.PC = Word16(return_address + 1),
                               !.cycles = @ + 6]))

handleRti(m) ==
    Bind(pullByte(m),
         LAMBDA pulled, m1 :
            Bind(popStack16([m1 EXCEPT !.reg.P = PulledStatus(pulled)]),
                 LAMBDA return_address, m2 :
                    [m2 EXCEPT !.reg.PC = return_address, !.cycles = @ + 6]))

(***************************************************************************)
(* CPU6502::initializeInstructionHandlers and the per-mode handlers.  A    *)
(* row is <<opcode, operation, mode, pc_offset, cycles, penalty>>: the     *)
(* handler bound to the opcode resolves the operand address in the given  *)
(* mode and calls handle<operation>Base(address, pc_offset, cycles), with  *)
(* one more cycle on a page crossing when penalty is TRUE.  Rows of mode   *)
(* "impl", "acc" and "rel" name handlers that take no operand address.     *)
(***************************************************************************)
HandlerTable ==
    <<
       <<0, "Brk", "impl", 0, 0, FALSE>>,
       <<1, "Ora", "indx", 1, 6, FALSE>>,
       <<5, "Ora", "zp", 1, 3, FALSE>>,
       <<6, "Asl", "zp", 1, 5, FALSE>>,
       <<8, "Php", "impl", 0, 0, FALSE>>,
       <<9, "Ora", "imm", 1, 2, FALSE>>,
       <<10, "Asl", "acc", 0, 0, FALSE>>,
       <<13, "Ora", "abs", 2, 4, FALSE>>,
       <<14, "Asl", "abs", 2, 6, FALSE>>,
       <<16, "Bpl", "rel", 0, 0, FALSE>>,
       <<17, "Ora", "indy", 1, 5, TRUE>>,
       <<21, "Ora", "zpx", 1, 4, FALSE>>,
       <<22, "Asl", "zpx", 1, 6, FALSE>>,
       <<24, "Clc", "impl", 0, 0, FALSE>>,
       <<25, "Ora", "absy", 2, 4, TRUE>>,
       <<29, "Ora", "absx", 2, 4, TRUE>>,
       <<30, "Asl", "absx", 2, 7, FALSE>>,
       <<32, "Jsr", "impl", 0, 0, FALSE>>,
       <<33, "And", "indx", 1, 6, FALSE>>,
       <<36, "Bit", "zp", 1, 3, FALSE>>,
       <<37, "And", "zp", 1, 3, FALSE>>,
       <<38, "Rol", "zp", 1, 5, FALSE>>,
       <<40, "Plp", "impl", 0, 0, FALSE>>,
       <<41, "And", "imm", 1, 2, FALSE>>,
       <<42, "Rol", "acc", 0, 0, FALSE>>,
       <<44, "Bit", "abs", 2, 4, FALSE>>,
       <<45, "And", "abs", 2, 4, FALSE>>,
       <<46, "Rol", "abs", 2, 6, FALSE>>,
       <<48, "Bmi", "rel", 0, 0, FALSE>>,
       <<49, "And", "indy", 1, 5, TRUE>>,
       <<53, "And", "zpx", 1, 4, FALSE>>,
       <<54, "Rol", "zpx", 1, 6, FALSE>>,
       <<56, "Sec", "impl", 0, 0, FALSE>>,
       <<57, "And", "absy", 2, 4, TRUE>>,
       <<61, "And", "absx", 2, 4, TRUE>>,
       <<62, "Rol", "absx", 2, 7, FALSE>>,
       <<64, "Rti", "impl", 0, 0, FALSE>>,
       <<65, "Eor", "indx", 1, 6, FALSE>>,
       <<69, "Eor", "zp", 1, 3, FALSE>>,
       <<70, "Lsr", "zp", 1, 5, FALSE>>,
       <<72, "Pha", "impl", 0, 0, FALSE>>,
       <<73, "Eor", "imm", 1, 2, FALSE>>,
       <<74, "Lsr", "acc", 0, 0, FALSE>>,
       <<76, "Jmp", "jabs", 0, 3, FALSE>>,
       <<77, "Eor", "abs", 2, 4, FALSE>>,
       <<78, "Lsr", "abs", 2, 6, FALSE>>,
       <<80, "Bvc", "rel", 0, 0, FALSE>>,
       <<81, "Eor", "indy", 1, 5, TRUE>>,
       <<85, "Eor", "zpx", 1, 4, FALSE>>,
       <<86, "Lsr", "zpx", 1, 6, FALSE>>,
       <<88, "Cli", "impl", 0, 0, FALSE>>,
       <<89, "Eor", "absy", 2, 4, TRUE>>,
       <<93, "Eor", "absx", 2, 4, TRUE>>,
       <<94, "Lsr", "absx", 2, 7, FALSE>>,
       <<96, "Rts", "impl", 0, 0, FALSE>>,
       <<97, "Adc", "indx", 1, 6, FALSE>>,
       <<101, "Adc", "zp", 1, 3, FALSE>>,
       <<102, "Ror", "zp", 1, 5, FALSE>>,
       <<104, "Pla", "impl", 0, 0, FALSE>>,
       <<105, "Adc", "imm", 1, 2, FALSE>>,
       <<106, "Ror", "acc", 0, 0, FALSE>>,
       <<108, "Jmp", "jind", 0, 5, FALSE>>,
       <<109, "Adc", "abs", 2, 4, FALSE>>,
       <<110, "Ror", "abs", 2, 6, FALSE>>,
       <<112, "Bvs", "rel", 0, 0, FALSE>>,
       <<113, "Adc", "indy", 1, 5, TRUE>>,
       <<117, "Adc", "zpx", 1, 4, FALSE>>,
       <<118, "Ror", "zpx", 1, 6, FALSE>>,
       <<120, "Sei", "impl", 0, 0, FALSE>>,
       <<121, "Adc", "absy", 2, 4, TRUE>>,
       <<125, "Adc", "absx", 2, 4, TRUE>>,
       <<126, "Ror", "absx", 2, 7, FALSE>>,
       <<129, "Sta", "indx", 1, 6, FALSE>>,
       <<132, "Sty", "zp", 1, 3, FALSE>>,
       <<133, "Sta", "zp", 1, 3, FALSE>>,
       <<134, "Stx", "zp", 1, 3, FALSE>>,
       <<136, "Dey", "impl", 0, 0, FALSE>>,
       <<138, "Txa", "impl", 0, 0, FALSE>>,
       <<140, "Sty", "abs", 2, 4, FALSE>>,
       <<141, "Sta", "abs", 2, 4, FALSE>>,
       <<142, "Stx", "abs", 2, 4, FALSE>>,
       <<144, "Bcc", "rel", 0, 0, FALSE>>,
       <<145, "Sta", "indy", 1, 6, FALSE>>,
       <<148, "Sty", "zpx", 1, 4, FALSE>>,
       <<149, "Sta", "zpx", 1, 4, FALSE>>,
       <<150, "Stx", "zpy", 1, 4, FALSE>>,
       <<152, "Tya", "impl", 0, 0, FALSE>>,
       <<153, "Sta", "absy", 2, 5, FALSE>>,
       <<154, "Txs", "impl", 0, 0, FALSE>>,
       <<157, "Sta", "absx", 2, 5, FALSE>>,
       <<160, "Ldy", "imm", 1, 2, FALSE>>,
       <<161, "Lda", "indx", 1, 6, FALSE>>,
       <<162, "Ldx", "imm", 1, 2, FALSE>>,
       <<164, "Ldy", "zp", 1, 3, FALSE>>,
       <<165, "Lda", "zp", 1, 3, FALSE>>,
       <<166, "Ldx", "zp", 1, 3, FALSE>>,
       <<168, "Tay", "impl", 0, 0, FALSE>>,
       <<169, "Lda", "imm", 1, 2, FALSE>>,
       <<170, "Tax", "impl", 0, 0, FALSE>>,
       <<172, "Ldy", "abs", 2, 4, FALSE>>,
       <<173, "Lda", "abs", 2, 4, FALSE>>,
       <<174, "Ldx", "abs", 2, 4, FALSE>>,
       <<176, "Bcs", "rel", 0, 0, FALSE>>,
       <<177, "Lda", "indy", 1, 5, TRUE>>,
       <<180, "Ldy", "zpx", 1, 4, FALSE>>,
       <<181, "Lda", "zpx", 1, 4, FALSE>>,
       <<182, "Ldx", "zpy", 1, 4, FALSE>>,
       <<184, "Clv", "impl", 0, 0, FALSE>>,
       <<185, "Lda", "absy", 2, 4, TRUE>>,
       <<186, "Tsx", "impl", 0, 0, FALSE>>,
       <<188, "Ldy", "absx", 2, 4, TRUE>>,
       <<189, "Lda", "absx", 2, 4, TRUE>>,
       <<190, "Ldx", "absy", 2, 4, TRUE>>,
       <<192, "Cpy", "imm", 1, 2, FALSE>>,
       <<193, "Cmp", "indx", 1, 6, FALSE>>,
       <<196, "Cpy", "zp", 1, 3, FALSE>>,
       <<197, "Cmp", "zp", 1, 3, FALSE>>,
       <<198, "Dec", "zp", 1, 5, FALSE>>,
       <<200, "Iny", "impl", 0, 0, FALSE>>,
       <<201, "Cmp", "imm", 1, 2, FALSE>>,
       <<202, "Dex", "impl", 0, 0, FALSE>>,
       <<204, "Cpy", "abs", 2, 4, FALSE>>,
       <<205, "Cmp", "abs", 2, 4, FALSE>>,
       <<206, "Dec", "abs", 2, 6, FALSE>>,
       <<208, "Bne", "rel", 0, 0, FALSE>>,
       <<209, "Cmp", "indy", 1, 5, TRUE>>,
       <<213, "Cmp", "zpx", 1, 4, FALSE>>,
       <<214, "Dec", "zpx", 1, 6, FALSE>>,
       <<216, "Cld", "impl", 0, 0, FALSE>>,
       <<217, "Cmp", "absy", 2, 4, TRUE>>,
       <<221, "Cmp", "absx", 2, 4, TRUE>>,
       <<222, "Dec", "absx", 2, 7, FALSE>>,
       <<224, "Cpx", "imm", 1, 2, FALSE>>,
       <<225, "Sbc", "indx", 1, 6, FALSE>>,
       <<228, "Cpx", "zp", 1, 3, FALSE>>,
       <<229, "Sbc", "zp", 1, 3, FALSE>>,
       <<230, "Inc", "zp", 1, 5, FALSE>>,
       <<232, "Inx", "impl", 0, 0, FALSE>>,
       <<233, "Sbc", "imm", 1, 2, FALSE>>,
       <<234, "Nop", "impl", 0, 0, FALSE>>,
       <<236, "Cpx", "abs", 2, 4, FALSE>>,
       <<237, "Sbc", "abs", 2, 4, FALSE>>,
       <<238, "Inc", "abs", 2, 6, FALSE>>,
       <<240, "Beq", "rel", 0, 0, FALSE>>,
       <<241, "Sbc", "indy", 1, 5, TRUE>>,
       <<245, "Sbc", "zpx", 1, 4, FALSE>>,
       <<246, "Inc", "zpx", 1, 6, FALSE>>,
       <<248, "Sed", "impl", 0, 0, FALSE>>,
       <<249, "Sbc", "absy", 2, 4, TRUE>>,
       <<253, "Sbc", "absx", 2, 4, TRUE>>,
       <<254, "Inc", "absx", 2, 7, FALSE>>
    >>

\* the handler bound in row i of the table
HandlerRow(i) ==
    [fam |-> HandlerTable[i][2], mode |-> HandlerTable[i][3],
     pc_offset |-> HandlerTable[i][4], cycles |-> HandlerTable[i][5],
     penalty |-> HandlerTable[i][6]]

\* the std::map handlers_: opcode to handler
handlers_ ==
    [op \in {HandlerTable[i][1] : i \in DOMAIN HandlerTable} |->
        HandlerRow(CHOOSE i \in DOMAIN HandlerTable : HandlerTable[i][1] = op)]

\* the index register a mode adds to the operand
IndexOf(m, mode) ==
    CASE mode \in {"zpx", "absx", "indx"} -> m.reg.X
      [] mode \in {"zpy", "absy", "indy"} -> m.reg.Y
      [] OTHER -> 0

\* The operand address as the per-mode handler computes it before calling
\* the Base function: [v |-> [address, page_crossed], m |-> after]
OperandAddress(m, mode) ==
    CASE mode = "imm" ->
            [v |-> [address |-> m.reg.PC, page_crossed |-> FALSE], m |-> m]
      [] mode \in {"zp", "zpx", "zpy", "abs", "absx", "absy"} ->
            calculateAddress(m, mode \in {"zp", "zpx", "zpy"}, IndexOf(m, mode))
      [] mode = "indx" -> calculateIndexedAddress(m, IndexOf(m, mode))
      [] mode = "indy" -> calculateIndirectAddress(m, IndexOf(m, mode))

AddressedModes == {"imm", "zp", "zpx", "zpy", "abs", "absx", "absy", "indx", "indy"}

\* the Base function of an operation
RunBase(m, fam, address, pc_offset, cyc) ==
    CASE fam = "Adc" -> handleAdcBase(m, address, pc_offset, cyc)
      [] fam = "Sbc" -> handleSbcBase(m, address, pc_offset, cyc)
      [] fam \in {"And", "Eor", "Ora"} -> handleLogicBase(m, fam, address, pc_offset, cyc)
      [] fam \in {"Lda", "Ldx", "Ldy"} -> handleLoadBase(m, fam, address, pc_offset, cyc)
      [] fam \in {"Sta", "Stx", "Sty"} -> handleStoreBase(m, fam, address, pc_offset, cyc)
      [] fam \in {"Cmp", "Cpx", "Cpy"} -> handleCompareBase(m, fam, address, pc_offset, cyc)
      [] fam = "Bit" -> handleBitBase(m, address, pc_offset, cyc)
      [] fam \in {"Asl", "Lsr", "Rol", "Ror", "Inc", "Dec"} ->
            handleModifyBase(m, fam, address, pc_offset, cyc)

\* RunAddressed as it would be had every handler added the page-crossing
\* cycle, the stores and the read-modify-write instructions included
RunAddressed_penaltyAlways(m, h) ==
    Bind(OperandAddress(m, h.mode),
         LAMBDA ea, m1 :
            RunBase(m1, h.fam, ea.address, h.pc_offset,
                    h.cycles + (IF ea.page_crossed THEN 1 ELSE 0)))

\* A handle<Op><Mode> function: resolve the address, call the Base function
RunAddressed(m, h) ==
    Bind(OperandAddress(m, h.mode),
         LAMBDA ea, m1 :
            RunBase(m1, h.fam, ea.address, h.pc_offset,
                    h.cycles + (IF h.penalty /\ ea.page_crossed THEN 1 ELSE 0)))

\* The branch handlers
RunBranch(m, fam) ==
    CASE fam = "Bcc" -> handleBranch(m, kCarry, FALSE)
      [] fam = "Bcs" -> handleBranch(m, kCarry, TRUE)
      [] fam = "Beq" -> handleBranch(m, kZero, TRUE)
      [] fam = "Bmi" -> handleBranch(m, kNegative, TRUE)
      [] fam = "Bne" -> handleBranch(m, kZero, FALSE)
      [] fam = "Bpl" -> handleBranch(m, kNegative, FALSE)
      [] fam = "Bvc" -> handleBranch(m, kOverflow, FALSE)
      [] fam = "Bvs" -> handleBranch(m, kOverflow, TRUE)

\* The handlers of the one-byte instructions and of JSR
RunImplied(m, fam) ==
    CASE fam = "Brk" -> handleBrk(m)
      [] fam = "Nop" -> handleNop(m)
      [] fam = "Jsr" -> handleJsr(m)
      [] fam = "Rts" -> handleRts(m)
      [] fam = "Rti" -> handleRti(m)
      [] fam = "Pha" -> handlePha(m)
      [] fam = "Php" -> handlePhp(m)
      [] fam = "Pla" -> handlePla(m)
      [] fam = "Plp" -> handlePlp(m)
      [] fam = "Clc" -> handleFlag(m, kCarry, FALSE)
      [] fam = "Cld" -> handleFlag(m, kDecimal, FALSE)
      [] fam = "Cli" -> handleFlag(m, kInterrupt, FALSE)
      [] fam = "Clv" -> handleFlag(m, kOverflow, FALSE)
      [] fam = "Sec" -> handleFlag(m, kCarry, TRUE)
      [] fam = "Sed" -> handleFlag(m, kDecimal, TRUE)
      [] fam = "Sei" -> handleFlag(m, kInterrupt, TRUE)
      [] fam \in {"Tax", "Tay", "Tsx", "Txa", "Txs", "Tya"} -> handleTransfer(m, fam)
      [] fam \in {"Inx", "Iny", "Dex", "Dey"} -> handleIncDecRegister(m, fam)

\* The handler bound to an opcode, run on the machine after the opcode fetch
RunHandler(m, h) ==
    CASE h.mode \in AddressedModes -> RunAddressed(m, h)
      [] h.mode = "jabs" -> handleJmpAbsolute(m)
      [] h.mode = "jind" -> handleJmpIndirect(m)
      [] h.mode = "acc" -> handleAccumulator(m, h.fam)
      [] h.mode = "rel" -> RunBranch(m, h.fam)
      [] h.mode = "impl" -> RunImplied(m, h.fam)

\* Dispatch as it would be had the undocumented one-byte NOP 0x1A been bound
\* to handleNop
Dispatch_undocumentedNop(m, opcode, known) ==
    IF opcode \in DOMAIN known
    THEN [ok |-> TRUE, m |-> RunHandler(m, known[opcode]), opcode |-> opcode]
    ELSE IF opcode = 26
    THEN [ok |-> TRUE, m |-> handleNop(m), opcode |-> opcode]
    ELSE [ok |-> FALSE, m |-> m, opcode |-> opcode]

\* the handler found for an opcode: [ok |-> found, m |-> after, opcode]
Dispatch(m, opcode, known) ==
    IF opcode \in DOMAIN known
    THEN [ok |-> TRUE, m |-> RunHandler(m, known[opcode]), opcode |-> opcode]
    ELSE [ok |-> FALSE, m |-> m, opcode |-> opcode]

\* executeSingleInstruction as it would be had an unknown opcode been run as
\* a NOP before reporting it
executeSingleInstruction_illegalAsNop(m) ==
    Bind(readByte(m),
         LAMBDA opcode, m1 :
            IF opcode \in DOMAIN handlers_
            THEN Dispatch(m1, opcode, handlers_)
            ELSE [ok |-> FALSE, m |-> handleNop(m1), opcode |-> opcode])

\* CPU6502::executeSingleInstruction: [ok |-> the returned bool, m |-> after,
\* opcode |-> the byte fetched]
executeSingleInstruction(m) ==
    Bind(readByte(m), LAMBDA opcode, m1 : Dispatch(m1, opcode, handlers_))

\* reset as it would be had it left the stack pointer alone
CPU_reset_keepsStackPointer(m) ==
    Bind(Memory_readWord(m, ResetVector),
         LAMBDA vec, m1 :
            [m1 EXCEPT !.reg = [A |-> 0, X |-> 0, Y |-> 0, SP |-> m.reg.SP,
                                P |-> 32 + kInterrupt, PC |-> vec],
                       !.cycles = 0])

\* reset as it would be had it emptied the keyboard buffer
CPU_reset_clearsKeyboard(m) ==
    Bind(Memory_readWord(m, ResetVector),
         LAMBDA vec, m1 :
            [m1 EXCEPT !.reg = [A |-> 0, X |-> 0, Y |-> 0, SP |-> 255,
                                P |-> 32 + kInterrupt, PC |-> vec],
                       !.cycles = 0,
                       !.pia = clearKeyboardBuffer(@)])

\* CPU6502::reset
CPU_reset(m) ==
    Bind(Memory_readWord(m, ResetVector),
         LAMBDA vec, m1 :
            [m1 EXCEPT !.reg = [A |-> 0, X |-> 0, Y |-> 0, SP |-> 255,
                                P |-> 32 + kInterrupt, PC |-> vec],
                       !.cycles = 0])

(***************************************************************************)
(* The computer as a state machine.  reg, cycles, ram, vic, pia are the    *)
(* fields of CPU6502, Memory, VIC and PIA; log lists the bus accesses of   *)
(* the operation that produced the state.  History variables: last is the  *)
(* operation that produced the state with the machine it started from,     *)
(* (for a step: the opcode fetched, the returned bool and the newest push  *)
(* of the history before it), pushed is the list of PHA / PHP pushes not   *)
(* yet pulled, phase tells whether power_on has run and count is the       *)
(* number of operations that followed the last change of phase.            *)
(***************************************************************************)
Machine ==
    [reg |-> reg, cycles |-> cycles, ram |-> ram, vic |-> vic, pia |-> pia,
     log |-> <<>>]

Becomes(m) ==
    /\ reg' = m.reg
    /\ cycles' = m.cycles
    /\ ram' = m.ram
    /\ vic' = m.vic
    /\ pia' = m.pia
    /\ log' = m.log

\* Computer6502::Computer6502: VIC(), PIA(), Memory(0x10000 zero bytes) and
\* CPU6502(memory), whose constructor sets cycles_ to 0 and calls reset()
Constructed ==
    CPU_reset([reg |-> [A |-> 0, X |-> 0, Y |-> 0, PC |-> 0, SP |-> 255, P |-> 32],
               cycles |-> 0, ram |-> EmptyStore, vic |-> VIC_Init,
               pia |-> PIA_Init, log |-> <<>>])

\* the newest push of a history, NoPush when there is none
NoPush == [kind |-> "none", value |-> 0, SP |-> 0]

Top(h) == IF h # <<>> THEN h[Len(h)] ELSE NoPush

Init ==
    /\ reg = Constructed.reg
    /\ cycles = Constructed.cycles
    /\ ram = Constructed.ram
    /\ vic = Constructed.vic
    /\ pia = Constructed.pia
    /\ log = Constructed.log
    /\ last = [op |-> "construct", ok |-> TRUE, pre |-> Constructed,
               opcode |-> 0, top |-> NoPush]
    /\ pushed = <<>>
    /\ phase = "off"
    /\ count = 0

\* Computer6502::power_on with a kernel image of three segments, each
\* [start |-> address, bytes |-> sequence]: the CODE, JUMPS and VECS segments
\* are copied with Memory::loadProgram, then ResetCircuit::powerOnReset runs
\* CPU6502::reset
power_on(m, codeSegment, jumpsSegment, vecsSegment) ==
    CPU_reset(
      Memory_loadProgram(
        Memory_loadProgram(
          Memory_loadProgram(m, codeSegment.bytes, codeSegment.start),
          jumpsSegment.bytes, jumpsSegment.start),
        vecsSegment.bytes, vecsSegment.start))

PowerOn(image) ==
    /\ phase = "off"
    /\ \E m \in {power_on(Machine, image.code, image.jumps, image.vecs)} :
          Becomes(m)
    /\ last' = [op |-> "power_on", ok |-> TRUE, pre |-> Machine,
                opcode |-> 0, top |-> NoPush]
    /\ pushed' = <<>>
    /\ phase' = "on"
    /\ count' = 0

\* The history of PHA / PHP pushes and JSR calls after the instruction with
\* this opcode has run from machine m: a push adds [kind, value, SP before the
\* push] (for a JSR the value is the address of its opcode), the pull of the
\* same kind (RTS for a JSR) removes the newest entry, and any other
\* instruction that moves SP or writes the stack page forgets the history.
PushedBy(h, m, after, fam) ==
    CASE fam = "Pha" -> Append(h, [kind |-> "A", value |-> m.reg.A, SP |-> m.reg.SP])
      [] fam = "Php" -> Append(h, [kind |-> "P", value |-> m.reg.P, SP |-> m.reg.SP])
      [] fam = "Pla" /\ h # <<>> /\ h[Len(h)].kind = "A" -> SubSeq(h, 1, Len(h) - 1)
      [] fam = "Plp" /\ h # <<>> /\ h[Len(h)].kind = "P" -> SubSeq(h, 1, Len(h) - 1)
      [] fam = "Jsr" -> Append(h, [kind |-> "J", value |-> m.reg.PC, SP |-> m.reg.SP])
      [] fam = "Rts" /\ h # <<>> /\ h[Len(h)].kind = "J" -> SubSeq(h, 1, Len(h) - 1)
      [] OTHER ->
           IF after.reg.SP = m.reg.SP
              /\ \A i \in 1 .. Len(after.log) :
                    after.log[i][1] = "w" =>
                       after.log[i][2] \notin StackPage .. StackPage + 255
           THEN h ELSE <<>>

PushedAfter(h, m, after, opcode) ==
    PushedBy(h, m, after,
             IF opcode \in DOMAIN handlers_ THEN handlers_[opcode].fam ELSE "none")

\* One call of CPU6502::executeSingleInstruction, at most max_steps of them;
\* last.prior keeps the operation before it and the registers that one
\* started from
Step(max_steps) ==
    /\ phase = "on"
    /\ count < max_steps
    /\ \E r \in {executeSingleInstruction(Machine)} :
          /\ Becomes(r.m)
          /\ last' = [op |-> "step", ok |-> r.ok, pre |-> Machine,
                      opcode |-> r.opcode, top |-> Top(pushed),
                      prior |-> [op |-> last.op, ok |-> last.ok,
                                 opcode |-> last.opcode, reg |-> last.pre.reg]]
          /\ pushed' = PushedAfter(pushed, Machine, r.m, r.opcode)
    /\ count' = count + 1
    /\ UNCHANGED phase

\* Computer6502::reset: ResetCircuit::triggerReset runs CPU6502::reset
Reset(max_steps) ==
    /\ phase = "on"
    /\ count < max_steps
    /\ \E m \in {CPU_reset(Machine)} : Becomes(m)
    /\ last' = [op |-> "reset", ok |-> TRUE, pre |-> Machine,
                opcode |-> 0, top |-> NoPush]
    /\ pushed' = <<>>
    /\ count' = count + 1
    /\ UNCHANGED phase

\* The byte at address a of machine m, without a bus access
Peek(m, a) ==
    IF isPiaAddress(a) THEN readPia(m.pia, a).v
    ELSE IF isScreenAddress(a) THEN readScreen(m.vic, a)
    ELSE CellAt(m.ram, a, 0)

Lo(w) == w % 256
Hi(w) == (w \div 256) % 256

\* Opcodes used to build programs, as initializeInstructionHandlers binds them
LDA_imm == 169
LDX_imm == 162
LDY_imm == 160
PHA_impl == 72
PHP_impl == 8
PLA_impl == 104
PLP_impl == 40
RTI_impl == 64
CLC_impl == 24
SEC_impl == 56
TXS_impl == 154
JMP_jabs == 76
ADC_imm == 105
ADC_abs == 109
SBC_imm == 233
SBC_abs == 237
CMP_imm == 201
CMP_abs == 205
CPX_imm == 224
CPX_abs == 236
CPY_imm == 192
CPY_abs == 204
JSR_abs == 32
RTS_impl == 96
NOP_impl == 234
STA_abs == 141
LDA_abs == 173
SED_impl == 248
TAX_impl == 170
TAY_impl == 168
STA_zp == 133

\* A kernel image: code at org, a data (JUMPS) segment, and the VECS segment
\* with the NMI, RESET and IRQ vectors at 0xFFFA..0xFFFF.  power_on takes
\* the segments from a 4 KiB ROM file that starts at 0xF000, so every
\* segment lies at or above RomBase.
Image(code, org, data, data_org, reset_vec, irq_vec) ==
    [code |-> [start |-> org, bytes |-> code],
     jumps |-> [start |-> data_org, bytes |-> data],
     vecs |-> [start |-> ResetVector - 2,
               bytes |-> <<0, 0, Lo(reset_vec), Hi(reset_vec),
                           Lo(irq_vec), Hi(irq_vec)>>]]

(***************************************************************************)
(* SpecAlu: images that load a register, set or clear carry and run one    *)
(* ADC, SBC, CMP, CPX or CPY on an immediate operand.                      *)
(***************************************************************************)
MaxAluSteps == 3

AluOrg == RomBase

AluOperands == {0, 1, 2, 15, 16, 63, 64, 65, 127, 128, 129, 191, 192, 240, 254, 255}

\* <<load immediate, operation immediate, operation absolute>>
AluPairs ==
    {<<LDA_imm, ADC_imm, ADC_abs>>, <<LDA_imm, SBC_imm, SBC_abs>>,
     <<LDA_imm, CMP_imm, CMP_abs>>, <<LDX_imm, CPX_imm, CPX_abs>>,
     <<LDY_imm, CPY_imm, CPY_abs>>}

AluData == RomBase + 256

\* the operand as an immediate
AluImmediate(p, a, c, operand) ==
    Image(<<p[1], a, c, p[2], operand>>, AluOrg, <<>>, RomBase, AluOrg, AluOrg)

\* the operand in memory
AluAbsolute(p, a, c, operand) ==
    Image(<<p[1], a, c, p[3], Lo(AluData), Hi(AluData)>>,
          AluOrg, <<operand>>, AluData, AluOrg, AluOrg)

PowerOnAlu ==
    /\ phase = "off"
    /\ \E p \in AluPairs, c \in {CLC_impl, SEC_impl}, operand \in AluOperands :
          \/ \E a \in Byte : PowerOn(AluImmediate(p, a, c, operand))
          \/ \E a \in AluOperands : PowerOn(AluAbsolute(p, a, c, operand))

StepAlu == Step(MaxAluSteps)

NextAlu == PowerOnAlu \/ StepAlu

SpecAlu == Init /\ [][NextAlu]_vars

\* What the last step executed: its opcode, table row and operand byte
LastIsStep == last.op = "step"

LastFam == IF LastIsStep /\ last.ok THEN handlers_[last.opcode].fam ELSE "none"

LastMode == IF LastIsStep /\ last.ok THEN handlers_[last.opcode].mode ELSE "none"

\* the address and the byte the last instruction operated on
LastOperandAddress == OperandAddress(readByte(last.pre).m, LastMode).v.address

LastOperand == Peek(last.pre, LastOperandAddress)

LastBinary == ~getFlag(last.pre.reg.P, kDecimal)

CarryIn == IF getFlag(last.pre.reg.P, kCarry) THEN 1 ELSE 0

(***************************************************************************)
(* Spec: images that set X and Y and then run one instruction of every     *)
(* opcode value (legal or not) on a few operands, images that set the      *)
(* flags through PHA / PLP and run one branch, and images that pull P      *)
(* (PLP, RTI) from bytes pushed with PHA.  Execution continues into the    *)
(* zero bytes that follow the program.                                     *)
(***************************************************************************)
MaxSteps == 5

SweepOrg == RomBase

SweepIrq == RomBase + 3 * 256 + 69

\* four bytes at 0xF0FE .. 0xF101, on both sides of a page boundary
SweepData == [start |-> RomBase + 254, bytes |-> <<255, 2, 64, 3>>]

SweepIndex == {0, 1, 255}

\* operand bytes <<low, high>>: 0xF110, 0xF0FF and 0x0080
SweepOperands == {<<16, 241>>, <<255, 240>>, <<128, 0>>}

SweepImage(x, y, op, o) ==
    Image(<<LDX_imm, x, LDY_imm, y, op, o[1], o[2]>>,
          SweepOrg, SweepData.bytes, SweepData.start, SweepOrg, SweepIrq)

\* the opcodes of the 8 conditional branches
Branches == {op \in DOMAIN handlers_ : handlers_[op].mode = "rel"}

\* the branch operand sits at org + 5, so the address after the branch is
\* 0xF006 from the first origin and 0xF0FE from the second
BranchOrgs == {RomBase, RomBase + 248}

BranchOffsets == {0, 2, 16, 127, 128, 240, 253}

BranchImage(p, b, off, org) ==
    Image(<<LDA_imm, p, PHA_impl, PLP_impl, b, off>>, org, <<>>, RomBase, org, SweepIrq)

PlpImage(v) ==
    Image(<<LDA_imm, v, PHA_impl, PLP_impl>>, SweepOrg, <<>>, RomBase, SweepOrg, SweepIrq)

RtiImage(v) ==
    Image(<<LDA_imm, v, PHA_impl, PHA_impl, PHA_impl, RTI_impl>>,
          SweepOrg, <<>>, RomBase, SweepOrg, SweepIrq)

\* values of A whose successors, predecessors, halves and doubles are zero,
\* positive and negative
ResultValues == {0, 1, 127, 128, 255}

\* LDA #a; STA $80; PHA; TAX, TAY or SEC; then the instruction with
\* operand bytes 0x80, 0x00
ResultImage(a, fourth, op) ==
    Image(<<LDA_imm, a, STA_zp, 128, PHA_impl, fourth, op, 128, 0>>,
          SweepOrg, <<>>, RomBase, SweepOrg, SweepIrq)

PowerOnImage ==
    /\ phase = "off"
    /\ \/ \E x \in SweepIndex, y \in SweepIndex, op \in Byte, o \in SweepOperands :
             PowerOn(SweepImage(x, y, op, o))
       \/ \E p \in {0, 255}, b \in Branches, off \in BranchOffsets, org \in BranchOrgs :
             PowerOn(BranchImage(p, b, off, org))
       \/ \E v \in Byte : PowerOn(PlpImage(v)) \/ PowerOn(RtiImage(v))
       \/ \E a \in ResultValues, fourth \in {TAX_impl, TAY_impl, SEC_impl},
             op \in Byte :
             PowerOn(ResultImage(a, fourth, op))

StepImage == Step(MaxSteps)

Next == PowerOnImage \/ StepImage

Spec == Init /\ [][Next]_vars

(***************************************************************************)
(* Claims about the ALU                                                    *)
(***************************************************************************)
\* C1: with D = 0, one ADC leaves A = (A + M + C) mod 256 and sets carry
\* exactly when A + M + C exceeds 0xFF
C1_AdcSumAndCarry ==
    LastFam = "Adc" /\ LastBinary =>
        LET sum == last.pre.reg.A + LastOperand + CarryIn
        IN /\ reg.A = sum % 256
           /\ getFlag(reg.P, kCarry) = (sum > 255)

\* an ADC of 0xFF + 0xFF + 1 has run: the sum wraps and carries out
C1_Witness ==
    /\ LastFam = "Adc" /\ LastBinary
    /\ last.pre.reg.A = 255 /\ LastOperand = 255 /\ CarryIn = 1
    /\ reg.A = 255 /\ getFlag(reg.P, kCarry)

\* C2: with D = 0, after ADC V = (((A^r) & (M^r) & 0x80) # 0) and after SBC
\* V = (((A^M) & (A^r) & 0x80) # 0), r being the arithmetic result
C2_ClassicOverflow ==
    LET A == last.pre.reg.A
        M == LastOperand
    IN /\ LastFam = "Adc" /\ LastBinary =>
            LET r == (A + M + CarryIn) % 256
            IN getFlag(reg.P, kOverflow)
                   = (BitAnd(BitAnd(BitXor(A, r), BitXor(M, r)), 128) # 0)
       /\ LastFam = "Sbc" /\ LastBinary =>
            LET r == (A - M - (1 - CarryIn) + 512) % 256
            IN getFlag(reg.P, kOverflow)
                   = (BitAnd(BitAnd(BitXor(A, M), BitXor(A, r)), 128) # 0)

\* the register a compare instruction reads
CompareRegister(r) ==
    CASE LastFam = "Cmp" -> r.A
      [] LastFam = "Cpx" -> r.X
      [] LastFam = "Cpy" -> r.Y

\* C3: CMP, CPX and CPY set C = (R >= M), Z = (R = M) and N = bit 7 of
\* (R - M) mod 256, and leave A, X, Y, SP and V unchanged
C3_CompareFlags ==
    LastFam \in {"Cmp", "Cpx", "Cpy"} =>
        LET R == CompareRegister(last.pre.reg)
            M == LastOperand
        IN /\ getFlag(reg.P, kCarry) = (R >= M)
           /\ getFlag(reg.P, kZero) = (R = M)
           /\ getFlag(reg.P, kNegative) = (((R - M + 256) % 256) >= 128)
           /\ reg.A = last.pre.reg.A
           /\ reg.X = last.pre.reg.X
           /\ reg.Y = last.pre.reg.Y
           /\ reg.SP = last.pre.reg.SP
           /\ getFlag(reg.P, kOverflow) = getFlag(last.pre.reg.P, kOverflow)


(***************************************************************************)
(* Claims about cycle counts                                               *)
(***************************************************************************)
\* the operations that only read their operand
ReadFamilies ==
    {"Adc", "Sbc", "And", "Eor", "Ora", "Lda", "Ldx", "Ldy", "Cmp", "Cpx", "Cpy", "Bit"}

\* the published cycle counts of the 6502 by addressing mode: operations that
\* read their operand, stores, and read-modify-write operations
PublishedRead(mode) ==
    CASE mode = "imm" -> 2
      [] mode = "zp" -> 3
      [] mode \in {"zpx", "zpy", "abs", "absx", "absy"} -> 4
      [] mode = "indx" -> 6
      [] mode = "indy" -> 5

PublishedStore(mode) ==
    CASE mode = "zp" -> 3
      [] mode \in {"zpx", "zpy", "abs"} -> 4
      [] mode \in {"absx", "absy"} -> 5
      [] mode \in {"indx", "indy"} -> 6

PublishedModify(mode) ==
    CASE mode = "acc" -> 2
      [] mode = "zp" -> 5
      [] mode \in {"zpx", "abs"} -> 6
      [] mode = "absx" -> 7

\* the published cycle count of a legal non-branch instruction
PublishedCycles(fam, mode) ==
    CASE fam \in ReadFamilies -> PublishedRead(mode)
      [] fam \in {"Sta", "Stx", "Sty"} -> PublishedStore(mode)
      [] fam \in {"Asl", "Lsr", "Rol", "Ror", "Inc", "Dec"} -> PublishedModify(mode)
      [] mode = "jabs" -> 3
      [] mode = "jind" -> 5
      [] fam \in {"Jsr", "Rts", "Rti"} -> 6
      [] fam = "Brk" -> 7
      [] fam \in {"Pha", "Php"} -> 3
      [] fam \in {"Pla", "Plp"} -> 4
      [] OTHER -> 2

\* the last instruction read its operand through an indexed address that
\* crossed a page
LastReadCrossedPage ==
    /\ LastFam \in ReadFamilies
    /\ LastMode \in {"absx", "absy", "indy"}
    /\ OperandAddress(readByte(last.pre).m, LastMode).v.page_crossed

\* the cycles the last step added
LastCycles == cycles - last.pre.cycles

\* C4: one step of a legal non-branch instruction adds exactly the published
\* count for its operation and mode, plus 1 only for a read whose indexed
\* address crosses a page
C4_PublishedCycles ==
    LastIsStep /\ last.ok /\ LastMode # "rel" =>
        LastCycles = PublishedCycles(LastFam, LastMode)
                     + (IF LastReadCrossedPage THEN 1 ELSE 0)

\* the last instruction was a branch whose condition held
LastBranchTaken ==
    CASE LastFam = "Bcc" -> ~getFlag(last.pre.reg.P, kCarry)
      [] LastFam = "Bcs" -> getFlag(last.pre.reg.P, kCarry)
      [] LastFam = "Beq" -> getFlag(last.pre.reg.P, kZero)
      [] LastFam = "Bne" -> ~getFlag(last.pre.reg.P, kZero)
      [] LastFam = "Bmi" -> getFlag(last.pre.reg.P, kNegative)
      [] LastFam = "Bpl" -> ~getFlag(last.pre.reg.P, kNegative)
      [] LastFam = "Bvs" -> getFlag(last.pre.reg.P, kOverflow)
      [] LastFam = "Bvc" -> ~getFlag(last.pre.reg.P, kOverflow)

\* C5: a conditional branch adds 2 cycles when not taken, 3 when taken to a
\* target in the page of the address following the branch, 4 when taken
\* across a page
C5_BranchCycles ==
    LastMode = "rel" =>
        LastCycles =
            IF ~LastBranchTaken THEN 2
            ELSE IF reg.PC \div 256 = Word16(last.pre.reg.PC + 2) \div 256 THEN 3
            ELSE 4

(***************************************************************************)
(* Claims about BRK and the status register                                *)
(***************************************************************************)
\* the byte at offset k above the stack pointer the last step ended with
StackByte(k) == Peek(Machine, StackPage + Word8(reg.SP + k))

\* C7: a BRK at address a pushes a + 2 high byte first, then P with B and U
\* set, sets I, loads PC from 0xFFFE/0xFFFF, and lowers SP by 3
C7_BrkPushesReturnAddress ==
    LastFam = "Brk" =>
        /\ reg.SP = Word8(last.pre.reg.SP + 253)
        /\ StackByte(3) = Hi(Word16(last.pre.reg.PC + 2))
        /\ StackByte(2) = Lo(Word16(last.pre.reg.PC + 2))
        /\ StackByte(1) = WithBit(WithBit(last.pre.reg.P, kBreak, TRUE), kUnused, TRUE)
        /\ getFlag(reg.P, kInterrupt)
        /\ reg.PC = Peek(Machine, IrqVector) + 256 * Peek(Machine, IrqVector + 1)

\* C8: bit B of the live P is 0 in every reachable state; B is set only in
\* the byte PHP or BRK pushes
C8_BreakNeverLive ==
    /\ ~getFlag(reg.P, kBreak)
    /\ LastFam \in {"Php", "Brk"} => TestBit(StackByte(1), kBreak)

\* C9: bit U of the live P is 1 in every reachable state
C9_UnusedAlwaysSet == getFlag(reg.P, kUnused)

\* a PLP or an RTI has pulled a status byte whose bit U was clear
C9_Witness ==
    /\ LastFam \in {"Plp", "Rti"}
    /\ ~TestBit(Peek(last.pre, StackPage + Word8(last.pre.reg.SP + 1)), kUnused)
    /\ getFlag(reg.P, kUnused)


\* the operand byte of the last instruction and the two bus reads that
\* follow the reads of opcode and operand
LastOperandByte == Peek(last.pre, Word16(last.pre.reg.PC + 1))

LastPointerReads == <<log[3], log[4]>>

\* C12: (indirect,X) reads its pointer from (b + X) & 0xFF and
\* (b + X + 1) & 0xFF, (indirect),Y from b and (b + 1) & 0xFF, and the
\* pointer assembled from those two bytes is the one the instruction uses;
\* no pointer byte is read from 0x0100
C12_PointerWrapsInZeroPage ==
    /\ LastMode = "indx" =>
          /\ LastPointerReads =
                <<<<"r", (LastOperandByte + last.pre.reg.X) % 256>>,
                  <<"r", (LastOperandByte + last.pre.reg.X + 1) % 256>>>>
          /\ LastOperandAddress =
                Peek(last.pre, (LastOperandByte + last.pre.reg.X) % 256)
                + 256 * Peek(last.pre, (LastOperandByte + last.pre.reg.X + 1) % 256)
    /\ LastMode = "indy" =>
          /\ LastPointerReads =
                <<<<"r", LastOperandByte>>, <<"r", (LastOperandByte + 1) % 256>>>>
          /\ LastOperandAddress =
                Word16(Peek(last.pre, LastOperandByte)
                       + 256 * Peek(last.pre, (LastOperandByte + 1) % 256)
                       + last.pre.reg.Y)
    /\ LastMode \in {"indx", "indy"} =>
          log[3][2] # StackPage /\ log[4][2] # StackPage

\* an (indirect,X) instruction whose operand and X add up to 0xFF has run:
\* the low pointer byte came from 0x00FF and the high one from 0x0000
C12_Witness ==
    /\ LastMode = "indx"
    /\ LastOperandByte = 255 /\ last.pre.reg.X = 0
    /\ LastPointerReads = <<<<"r", 255>>, <<"r", 0>>>>

(***************************************************************************)
(* SpecIllegal: a one-byte program of every opcode value, a reset vector   *)
(* that points at the keyboard data register, and one that points at       *)
(* 0xFFFF where the byte is illegal; keys arrive from the window at any    *)
(* time.                                                                   *)
(***************************************************************************)
MaxKeys == 2

MaxIllegalSteps == 2

\* 'B' is no legal opcode, 0xEA is NOP
IllegalKeys == {66, 234}

\* PIA::addKeypress called from the window
AddKeypress(ascii_code) ==
    /\ pia.buffer_count_ < MaxKeys
    /\ pia' = addKeypress(pia, ascii_code)
    /\ log' = <<>>
    /\ last' = [op |-> "key", ok |-> TRUE, pre |-> Machine, opcode |-> 0,
                top |-> NoPush]
    /\ UNCHANGED <<reg, cycles, ram, vic, pushed, phase, count>>

KeyIllegal == \E k \in IllegalKeys : AddKeypress(k)

\* the two bytes at 0xFFFE and 0xFFFF when the program starts there: NOP,
\* LDA $10, LDA $0010 (its third byte is the 0x00 at address 0x0000)
TopPrograms == {234, 16 * 256 + 165, 16 * 256 + 173}

PowerOnIllegal ==
    /\ phase = "off"
    /\ \/ \E op \in Byte :
             PowerOn(Image(<<op>>, SweepOrg, <<>>, RomBase, SweepOrg, SweepIrq))
       \/ PowerOn(Image(<<>>, SweepOrg, <<>>, RomBase, kPiaMemoryStart, SweepIrq))
       \/ PowerOn(Image(<<>>, SweepOrg, <<>>, RomBase, 65535, 2 * 256))
       \/ \E top \in TopPrograms :
             PowerOn(Image(<<>>, SweepOrg, <<>>, RomBase, 65534, top))

StepIllegal == Step(MaxIllegalSteps)

NextIllegal == PowerOnIllegal \/ KeyIllegal \/ StepIllegal

SpecIllegal == Init /\ [][NextIllegal]_vars

\* the last step fetched an opcode that has no handler
LastIllegal == LastIsStep /\ ~last.ok

\* what an illegal opcode leaves of the CPU, the memory and the framebuffer
IllegalLeavesMachine ==
    /\ reg.PC = Word16(last.pre.reg.PC + 1)
    /\ cycles = last.pre.cycles + 1
    /\ reg.A = last.pre.reg.A
    /\ reg.X = last.pre.reg.X
    /\ reg.Y = last.pre.reg.Y
    /\ reg.SP = last.pre.reg.SP
    /\ reg.P = last.pre.reg.P
    /\ ram = last.pre.ram
    /\ vic = last.pre.vic

\* the opcode of the last step came from the keyboard data register while a
\* key was waiting
LastFetchedKey ==
    last.pre.reg.PC = kPiaMemoryStart + kPortAData /\ hasKeypress(last.pre.pia)

\* C6 as stated: a step on an illegal opcode returns false with PC one
\* further and one more cycle, and changes no register, no memory, not the
\* framebuffer and not the peripheral state
C6_IllegalOpcodeChangesNothing ==
    LastIllegal => IllegalLeavesMachine /\ pia = last.pre.pia

\* C6: a step on an illegal opcode returns false with PC one further and one
\* more cycle, and changes no register, no memory and not the framebuffer;
\* the peripheral state is unchanged too, except that an opcode fetched from
\* the keyboard data register while a key waits takes that key out of the
\* keyboard buffer
C6_IllegalOpcodeKeepsState ==
    LastIllegal =>
        /\ IllegalLeavesMachine
        /\ pia = IF LastFetchedKey THEN getKeypress(last.pre.pia).m ELSE last.pre.pia

\* an illegal opcode has been fetched from the keyboard data register and
\* the key is gone
C6_Witness ==
    /\ LastIllegal
    /\ LastFetchedKey
    /\ pia.buffer_count_ = last.pre.pia.buffer_count_ - 1
    /\ reg.PC = kPiaMemoryStart + 1

(***************************************************************************)
(* SpecStack: programs that set SP, push up to MaxPush bytes with PHA and  *)
(* PHP (a fresh A before each push) and pull them back in reverse order,   *)
(* entered from reset or through a BRK.                                    *)
(***************************************************************************)
MaxPush == 3

StackSteps == 3 + 3 * MaxPush

StackStarts == {255, 2, 1, 0}

StackValues == {0, 127, 128}

\* the kinds of the pushes, oldest first: "A" for PHA, "P" for PHP
PushKinds == UNION {[1 .. k -> {"A", "P"}] : k \in 1 .. MaxPush}

\* LDA #v; PHA or PHP, for each push
PushCode(kinds, a) ==
    [j \in 1 .. 3 * Len(kinds) |->
        CASE j % 3 = 1 -> LDA_imm
          [] j % 3 = 2 -> Word8(a + 65 * ((j + 1) \div 3))
          [] OTHER -> IF kinds[j \div 3] = "A" THEN PHA_impl ELSE PHP_impl]

\* PLA or PLP for each push, newest first
PullCode(kinds) ==
    [j \in 1 .. Len(kinds) |->
        IF kinds[Len(kinds) + 1 - j] = "A" THEN PLA_impl ELSE PLP_impl]

\* the program at SweepOrg; through_brk starts at a zero byte whose BRK
\* vectors to it
StackImage(sp, a, kinds, through_brk) ==
    Image(<<LDX_imm, sp, TXS_impl>> \o PushCode(kinds, a) \o PullCode(kinds),
          SweepOrg, <<>>, RomBase,
          IF through_brk THEN SweepOrg + 240 ELSE SweepOrg, SweepOrg)

PowerOnStack ==
    /\ phase = "off"
    /\ \E sp \in StackStarts, a \in StackValues, kinds \in PushKinds,
          through_brk \in BOOLEAN :
          PowerOn(StackImage(sp, a, kinds, through_brk))

StepStack == Step(StackSteps)

NextStack == PowerOnStack \/ StepStack

SpecStack == Init /\ [][NextStack]_vars

\* C10: after pushes with PHA / PHP, each matching pull in reverse order gives
\* back what was pushed - PLA the A, PLP the P with B cleared and U set - and
\* puts SP back where it was before that push, so the last pull restores the
\* starting SP
C10_PushPullRoundTrip ==
    /\ LastFam = "Pla" /\ last.top.kind = "A" =>
          reg.A = last.top.value /\ reg.SP = last.top.SP
    /\ LastFam = "Plp" /\ last.top.kind = "P" =>
          /\ reg.P = WithBit(WithBit(last.top.value, kBreak, FALSE), kUnused, TRUE)
          /\ reg.SP = last.top.SP

\* the last of three pulls has run on a stack that wrapped from 0x00 to
\* 0xFF: it was a PLP of a status pushed with B set, and the history of
\* pushes is empty again
C10_Witness ==
    /\ LastFam = "Plp" /\ last.top.kind = "P"
    /\ count >= 9
    /\ pushed = <<>>
    /\ last.top.SP = 0 /\ reg.SP = 0
    /\ getFlag(last.top.value, kBreak) /\ ~getFlag(reg.P, kBreak)

(***************************************************************************)
(* SpecCall: programs that set SP and call a chain of up to MaxDepth       *)
(* nested subroutines, each of which may push A before its own JSR and     *)
(* pull it after the callee returned.                                      *)
(***************************************************************************)
MaxDepth == 3

CallSteps == 3 + 4 * MaxDepth

\* the JSR of the main program sits at org + 3: at 0xF003, at 0xF0FE (its
\* last byte is the first of the next page) and at 0xF0FF
CallOrgs == {RomBase, RomBase + 251, RomBase + 252}

CallStarts == {255, 5, 4}

\* subroutine k of d, eight bytes at org + 8 * k
CallSub(k, d, with_push, org) ==
    IF k = d
    THEN <<RTS_impl, NOP_impl, NOP_impl, NOP_impl, NOP_impl, NOP_impl, NOP_impl,
           NOP_impl>>
    ELSE IF with_push
    THEN <<PHA_impl, JSR_abs, Lo(org + 8 * (k + 1)), Hi(org + 8 * (k + 1)),
           PLA_impl, RTS_impl, NOP_impl, NOP_impl>>
    ELSE <<JSR_abs, Lo(org + 8 * (k + 1)), Hi(org + 8 * (k + 1)), RTS_impl,
           NOP_impl, NOP_impl, NOP_impl, NOP_impl>>

\* LDX #sp; TXS; JSR sub1; NOP; NOP and then the d subroutines
CallCode(sp, d, with_push, org) ==
    [j \in 1 .. 8 + 8 * d |->
        IF j <= 8
        THEN <<LDX_imm, sp, TXS_impl, JSR_abs, Lo(org + 8), Hi(org + 8),
               NOP_impl, NOP_impl>>[j]
        ELSE CallSub((j - 1) \div 8, d, with_push, org)[((j - 1) % 8) + 1]]

PowerOnCall ==
    /\ phase = "off"
    /\ \E sp \in CallStarts, d \in 1 .. MaxDepth, with_push \in BOOLEAN,
          org \in CallOrgs :
          PowerOn(Image(CallCode(sp, d, with_push, org), org, <<>>, RomBase,
                        org, org))

StepCall == Step(CallSteps)

NextCall == PowerOnCall \/ StepCall

SpecCall == Init /\ [][NextCall]_vars

\* C11: a JSR at address a stores a + 2 on the stack, high byte at
\* 0x0100 + SP and low byte one below, lowers SP by 2 and jumps to its
\* operand; the RTS that matches it continues at a + 3 with the SP the JSR
\* started from, however deep the calls are nested
C11_JsrRtsReturnAddress ==
    /\ LastFam = "Jsr" =>
          /\ Peek(Machine, StackPage + last.pre.reg.SP)
                = Hi(Word16(last.pre.reg.PC + 2))
          /\ Peek(Machine, StackPage + Word8(last.pre.reg.SP + 255))
                = Lo(Word16(last.pre.reg.PC + 2))
          /\ reg.SP = Word8(last.pre.reg.SP + 254)
          /\ reg.PC = Peek(last.pre, Word16(last.pre.reg.PC + 1))
                      + 256 * Peek(last.pre, Word16(last.pre.reg.PC + 2))
    /\ LastFam = "Rts" /\ last.top.kind = "J" =>
          /\ reg.PC = Word16(last.top.value + 3)
          /\ reg.SP = last.top.SP

\* the outermost of three nested calls has returned: its JSR sat at 0xF0FE,
\* so the pushed address 0xF100 lies on the next page, and the innermost
\* call pushed across the bottom of the stack page
C11_Witness ==
    /\ LastFam = "Rts" /\ last.top.kind = "J"
    /\ pushed = <<>>
    /\ count = 2 + 2 * 3 + 4
    /\ last.top.value = RomBase + 254
    /\ reg.PC = RomBase + 257
    /\ reg.SP = 5

(***************************************************************************)
(* SpecReset: programs that load A, P, X and SP and store A over the low   *)
(* byte of the reset vector, or store A to the screen, the file registers  *)
(* and RAM, stepped and reset in any order while keys are typed.           *)
(***************************************************************************)
MaxResetOps == 8

ResetValues == {0, 65, 255}

ResetStarts == {0, 128}

\* LDA #a; PHA; PLP; LDX #x; TXS; STA $FFFC
ResetImage(a, x) ==
    Image(<<LDA_imm, a, PHA_impl, PLP_impl, LDX_imm, x, TXS_impl,
            STA_abs, Lo(ResetVector), Hi(ResetVector)>>,
          RomBase, <<>>, RomBase, RomBase, RomBase + 512)

\* LDA #a; STA $0400; STA $DC12; STA $DC10; STA $0200: a screen cell, the
\* low byte of the file address, the file command and a byte of RAM
ResetPeripheralImage(a) ==
    Image(<<LDA_imm, a, STA_abs, 0, 4, STA_abs, kFileAddrLo, 220,
            STA_abs, kFileCommand, 220, STA_abs, 0, 2>>,
          RomBase, <<>>, RomBase, RomBase, RomBase + 512)

PowerOnReset ==
    /\ phase = "off"
    /\ \/ \E a \in ResetValues, x \in ResetStarts : PowerOn(ResetImage(a, x))
       \/ \E a \in ResetValues : PowerOn(ResetPeripheralImage(a))

\* the keys typed into the window
ResetKeys == {75}

KeyReset == \E k \in ResetKeys : AddKeypress(k)

StepReset == Step(MaxResetOps)

TriggerReset == Reset(MaxResetOps)

NextReset == PowerOnReset \/ KeyReset \/ StepReset \/ TriggerReset

SpecReset == Init /\ [][NextReset]_vars

LastIsReset == last.op = "reset"

\* C13: a reset leaves A = X = Y = 0, SP = 0xFF, P = 0x24 and PC = the
\* little-endian word the bus holds at 0xFFFC, whatever the CPU state was;
\* a reset of the state so reached changes nothing
C13_ResetState ==
    LastIsReset =>
       /\ reg = [A |-> 0, X |-> 0, Y |-> 0, SP |-> 255,
                 P |-> kUnused + kInterrupt,
                 PC |-> Peek(last.pre, ResetVector)
                        + 256 * Peek(last.pre, ResetVector + 1)]
       /\ CPU_reset(Machine).reg = reg
       /\ CPU_reset(Machine).cycles = cycles
       /\ CPU_reset(Machine).ram = ram
       /\ CPU_reset(Machine).vic = vic
       /\ CPU_reset(Machine).pia = pia

\* a reset has run on a CPU whose A, X, SP and P were all changed by the
\* program, which had also rewritten the reset vector to 0xF041
C13_Witness ==
    /\ LastIsReset
    /\ last.pre.reg.A = 65 /\ last.pre.reg.X = 128 /\ last.pre.reg.SP = 128
    /\ last.pre.reg.P # kUnused + kInterrupt
    /\ last.pre.cycles > 0
    /\ reg.PC = RomBase + 65

\* C14: the cycle counter never decreases over a step or a reset, and every
\* step increases it by at least 1
C14_CyclesMonotonic ==
    /\ LastIsStep \/ LastIsReset => cycles >= last.pre.cycles
    /\ LastIsStep => cycles >= last.pre.cycles + 1

(***************************************************************************)
(* SpecBus: calls of Memory::write, read, readWord and writeWord on the    *)
(* constructed computer, at addresses on both sides of each window         *)
(* boundary, with keys arriving and the display clearing the dirty flag    *)
(* in between.  last records the call: its address, its argument and the   *)
(* value it returned.                                                      *)
(***************************************************************************)
MaxBusOps == 3

\* 0x0000, 0x03FF | 0x0400, 0x0429, 0x07E7 | 0x07E8, 0xDBFF | 0xDC00, 0xDC21 |
\* 0xDC22, 0xFFFF
BusAddresses == {0, 1023, 1024, 1065, 2023, 2024, 56319, 56320, 56353, 56354, 65535}

BusValues == {72, 32}

BusWords == {18505}

BusKeys == {75}

BusCall(op, address, value, r) ==
    /\ count < MaxBusOps
    /\ Becomes(r.m)
    /\ last' = [op |-> op, ok |-> TRUE, pre |-> Machine, opcode |-> 0,
                top |-> NoPush, address |-> address, value |-> value,
                result |-> r.v]
    /\ pushed' = <<>>
    /\ count' = count + 1
    /\ UNCHANGED phase

BusWrite ==
    \E address \in BusAddresses, value \in BusValues :
       BusCall("write", address, value,
               [v |-> 0, m |-> Memory_write(Machine, address, value)])

BusRead ==
    \E address \in BusAddresses :
       BusCall("read", address, 0, Memory_read(Machine, address))

BusReadWord ==
    \E address \in BusAddresses :
       BusCall("readWord", address, 0, Memory_readWord(Machine, address))

\* ram_ is a vector of 0x10000 bytes: writeWord(0xFFFF, v) indexes it out of
\* bounds and is left out
BusWriteWord ==
    \E address \in BusAddresses \ {65535}, value \in BusWords :
       BusCall("writeWord", address, value,
               [v |-> 0, m |-> Memory_writeWord(Machine, address, value)])

\* MainWindow::onDisplayKeyPressed
BusKey ==
    \E ascii_code \in BusKeys :
       BusCall("key", 0, ascii_code,
               [v |-> 0,
                m |-> [Machine EXCEPT !.pia = addKeypress(@, ascii_code)]])

\* DisplayWidget: the screen was redrawn
BusClearDirty ==
    BusCall("clearDirty", 0, 0,
            [v |-> 0, m |-> [Machine EXCEPT !.vic = clearDirty(@)]])

NextBus ==
    BusWrite \/ BusRead \/ BusReadWord \/ BusWriteWord \/ BusKey \/ BusClearDirty

SpecBus == Init /\ [][NextBus]_vars

\* the framebuffer window [0x0400, 0x07E7] and the peripheral window
\* [0xDC00, 0xDC21]
InScreenWindow(a) == a \in kScreenMemoryStart .. kScreenMemoryEnd

InWindow(a) == InScreenWindow(a) \/ a \in kPiaMemoryStart .. kPiaMemoryEnd

\* the addresses whose read value is compared before and after a call at a
BusProbes(a) == BusAddresses \cup {Word16(a + 1), Word16(a + 65535)}

\* C15: outside both windows, write(addr, v) followed by read(addr) returns
\* v, and the write changes the read value of no other address, no
\* framebuffer cell and no peripheral state
C15_RamWriteReadBack ==
    last.op = "write" /\ ~InWindow(last.address) =>
       /\ Memory_read(Machine, last.address).v = last.value
       /\ \A a \in BusProbes(last.address) \ {last.address} :
             Peek(Machine, a) = Peek(last.pre, a)
       /\ vic = last.pre.vic
       /\ pia = last.pre.pia

\* a byte other than the initial 0 was written just above the framebuffer
\* window, at 0x07E8, while a key was waiting
C15_Witness ==
    /\ last.op = "write" /\ last.address = kScreenMemoryEnd + 1
    /\ last.value = 72
    /\ Peek(last.pre, last.address) = 0
    /\ hasKeypress(pia)

\* C16: after write(a, v) inside the framebuffer window, read(a) returns v,
\* getCharacterAt((a - 0x0400) mod 40, (a - 0x0400) div 40) returns v and
\* the dirty flag is true
C16_ScreenWriteVisible ==
    last.op = "write" /\ InScreenWindow(last.address) =>
       /\ Memory_read(Machine, last.address).v = last.value
       /\ getCharacterAt(vic, (last.address - kScreenMemoryStart) % kScreenWidth,
                         (last.address - kScreenMemoryStart) \div kScreenWidth)
             = last.value
       /\ vic.dirty_flag_

\* the last cell of the second row, 0x0429 = (1, 1), was written after the
\* display had cleared the dirty flag
C16_Witness ==
    /\ last.op = "write" /\ last.address = kScreenMemoryStart + 41
    /\ last.value = 72
    /\ ~last.pre.vic.dirty_flag_
    /\ getCharacterAt(vic, 1, 1) = 72

\* C17: writeWord(addr, v) with addr or addr + 1 inside a window changes no
\* framebuffer cell, does not set the dirty flag, changes no peripheral
\* state, and a bus read of the address inside the window returns what it
\* returned before
C17_WriteWordBypassesWindows ==
    last.op = "writeWord"
    /\ (InWindow(last.address) \/ InWindow(last.address + 1)) =>
       /\ vic = last.pre.vic
       /\ pia = last.pre.pia
       /\ \A a \in {last.address, last.address + 1} :
             InWindow(a) =>
                Memory_read(Machine, a).v = Memory_read(last.pre, a).v

\* writeWord ran at 0xDBFF, its high byte aimed at the keyboard data
\* register while a key was waiting, and at 0x0400 with the dirty flag clear
C17_Witness ==
    /\ last.op = "writeWord"
    /\ \/ last.address = kPiaMemoryStart - 1 /\ hasKeypress(pia)
          /\ CellAt(ram, kPiaMemoryStart, 0) = 72
       \/ last.address = kScreenMemoryStart /\ ~vic.dirty_flag_
          /\ CellAt(ram, kScreenMemoryStart, 0) = 73

\* C18: readWord(addr) is read(addr) | (read((addr + 1) mod 65536) << 8),
\* each byte taken from the target its own address selects
C18_ReadWordThroughDispatch ==
    last.op = "readWord" =>
       last.result = Peek(last.pre, last.address)
                     + 256 * Peek(last.pre, Word16(last.address + 1))

\* readWord ran at 0xDBFF with a key waiting and a byte hidden in the RAM
\* under the data register: the low byte is the RAM byte 0x49 and the high
\* byte is the key
C18_Witness ==
    /\ last.op = "readWord" /\ last.address = kPiaMemoryStart - 1
    /\ hasKeypress(last.pre.pia)
    /\ CellAt(ram, kPiaMemoryStart, 0) = 72
    /\ last.result = 73 + 75 * 256

(***************************************************************************)
(* SpecFifo: the keyboard buffer of the constructed computer.  A burst of  *)
(* up to MaxBurst keys may be typed first (one addKeypress per key); the   *)
(* other calls are single: addKeypress, getKeypress, a bus read of the     *)
(* data register, clearKeyboardBuffer, a bus write and a bus read of the   *)
(* control register, MaxFifoOps calls in all.  last records the call, the  *)
(* value it returned, the queue a reference FIFO of capacity 32 holds      *)
(* before and after it, and the calls counted so far.                      *)
(***************************************************************************)
MaxBurst == 33

MaxFifoOps == 4

FifoKeys == {75, 48}

FifoOps ==
    {"type", "enqueue", "dequeue", "readData", "clear", "writeControl",
     "readControl"}

\* bytes written to the control register: 0x0F has bit 3 set and bits 4-7
\* clear, 0xF7 the reverse
FifoControls == {15, 247}

\* the keys of a burst of n: 'B', 'C', ... , 'Z', 'A', 'B', ...
BurstKeys(n) == [i \in 1 .. n |-> 65 + (i % 26)]

RECURSIVE TypeKeys(_, _)
\* addKeypress for each key in turn
TypeKeys(p, keys) ==
    IF keys = <<>> THEN p
    ELSE TypeKeys(addKeypress(p, Head(keys)), Tail(keys))

\* the reference FIFO
RefCapacity == 32

RefEnqueue(q, k) == IF Len(q) < RefCapacity THEN Append(q, k) ELSE q

RECURSIVE RefEnqueueAll(_, _)
RefEnqueueAll(q, keys) ==
    IF keys = <<>> THEN q
    ELSE RefEnqueueAll(RefEnqueue(q, Head(keys)), Tail(keys))

RefDequeue(q) == IF q = <<>> THEN [v |-> 0, m |-> q] ELSE [v |-> Head(q), m |-> Tail(q)]

\* the reference queue and the calls counted when the last call returned:
\* enq and deq are the calls made, dropped the enqueues made on a full queue,
\* missed the dequeues made on an empty one, control the last byte written
\* to the control register
FifoQueue == IF last.op \in FifoOps THEN last.queue ELSE <<>>

FifoCalls ==
    IF last.op \in FifoOps THEN last.calls
    ELSE [enq |-> 0, deq |-> 0, dropped |-> 0, missed |-> 0, cleared |-> FALSE,
          control |-> 0]

Enqueued(c, q, n) ==
    [c EXCEPT !.enq = @ + n,
              !.dropped = @ + n - (IF RefCapacity - Len(q) < n
                                   THEN RefCapacity - Len(q) ELSE n)]

Dequeued(c, q) ==
    [c EXCEPT !.deq = @ + 1, !.missed = @ + (IF q = <<>> THEN 1 ELSE 0)]

FifoCall(op, value, r, queue, calls) ==
    /\ Becomes([Machine EXCEPT !.pia = r.m])
    /\ last' = [op |-> op, ok |-> TRUE, pre |-> Machine, opcode |-> 0,
                top |-> NoPush, value |-> value, result |-> r.v,
                before |-> FifoQueue, queue |-> queue, calls |-> calls]
    /\ pushed' = <<>>
    /\ count' = count + 1
    /\ UNCHANGED phase

FifoType ==
    /\ count = 0
    /\ \E n \in 1 .. MaxBurst :
          FifoCall("type", n, [v |-> 0, m |-> TypeKeys(pia, BurstKeys(n))],
                   RefEnqueueAll(FifoQueue, BurstKeys(n)),
                   Enqueued(FifoCalls, FifoQueue, n))

FifoSingle == count < MaxFifoOps

FifoEnqueue ==
    /\ FifoSingle
    /\ \E ascii_code \in FifoKeys :
          FifoCall("enqueue", ascii_code,
                   [v |-> 0, m |-> addKeypress(pia, ascii_code)],
                   RefEnqueue(FifoQueue, ascii_code),
                   Enqueued(FifoCalls, FifoQueue, 1))

FifoDequeue ==
    /\ FifoSingle
    /\ FifoCall("dequeue", 0, getKeypress(pia), RefDequeue(FifoQueue).m,
                Dequeued(FifoCalls, FifoQueue))

\* LDA $DC00 as the bus sees it
FifoReadData ==
    /\ FifoSingle
    /\ \E r \in {Memory_read(Machine, kPiaMemoryStart + kPortAData)} :
          FifoCall("readData", 0, [v |-> r.v, m |-> r.m.pia],
                   RefDequeue(FifoQueue).m, Dequeued(FifoCalls, FifoQueue))

FifoClear ==
    /\ FifoSingle
    /\ FifoCall("clear", 0, [v |-> 0, m |-> clearKeyboardBuffer(pia)], <<>>,
                [FifoCalls EXCEPT !.cleared = TRUE])

\* STA $DC02 as the bus sees it
FifoWriteControl ==
    /\ FifoSingle
    /\ \E value \in FifoControls :
          FifoCall("writeControl", value,
                   [v |-> 0,
                    m |-> Memory_write(Machine, kPiaMemoryStart + kPortAControl,
                                       value).pia],
                   FifoQueue, [FifoCalls EXCEPT !.control = value])

\* LDA $DC02 as the bus sees it
FifoReadControl ==
    /\ FifoSingle
    /\ \E r \in {Memory_read(Machine, kPiaMemoryStart + kPortAControl)} :
          FifoCall("readControl", 0, [v |-> r.v, m |-> r.m.pia], FifoQueue,
                   FifoCalls)

NextFifo ==
    \/ FifoType \/ FifoEnqueue \/ FifoDequeue \/ FifoReadData \/ FifoClear
    \/ FifoWriteControl \/ FifoReadControl

SpecFifo == Init /\ [][NextFifo]_vars

\* the bytes the ring holds, oldest first
RingContents(p) ==
    [i \in 1 .. p.buffer_count_ |->
        p.keyboard_buffer_[(p.buffer_tail_ + i - 1) % kKeyboardBufferSize]]

\* C19: through enqueue, dequeue / data-register read and clear in any
\* order the ring holds what a FIFO of capacity 32 holds: an enqueue on a
\* full buffer changes neither head, tail, count nor contents, a dequeue
\* returns the oldest byte, or 0 with the state unchanged when empty, and
\* always 0 <= count <= 32 and head = (tail + count) mod 32
C19_RingIsBoundedFifo ==
    /\ RingContents(pia) = FifoQueue
    /\ pia.buffer_count_ \in 0 .. 32
    /\ pia.buffer_head_ = (pia.buffer_tail_ + pia.buffer_count_) % 32
    /\ last.op = "enqueue" /\ Len(last.before) = 32 =>
          /\ pia.buffer_head_ = last.pre.pia.buffer_head_
          /\ pia.buffer_tail_ = last.pre.pia.buffer_tail_
          /\ pia.buffer_count_ = last.pre.pia.buffer_count_
          /\ pia.keyboard_buffer_ = last.pre.pia.keyboard_buffer_
    /\ last.op \in {"dequeue", "readData"} =>
          /\ last.result = RefDequeue(last.before).v
          /\ last.before = <<>> => pia = last.pre.pia

\* 33 keys were typed, a key was read, and the enqueue that followed went
\* into the cell the read had freed: head has wrapped to 0, the buffer is
\* full again and its oldest byte is the second key typed
C19_Witness ==
    /\ last.op = "enqueue" /\ last.value = 75
    /\ FifoCalls.dropped = 1
    /\ Len(last.before) = 31
    /\ pia.buffer_count_ = 32
    /\ pia.buffer_head_ = 1 /\ pia.buffer_tail_ = 1
    /\ RingContents(pia)[1] = 67 /\ RingContents(pia)[32] = 75

FifoClamp(n) == IF n < 0 THEN 0 ELSE IF n > 32 THEN 32 ELSE n

\* C20: from an empty FIFO, after N enqueue calls and M dequeue calls in
\* any order count is N - M clamped to [0, 32], and an enqueue of k on an
\* empty FIFO followed by a dequeue returns k
C20_CountIsClampedDifference ==
    /\ ~FifoCalls.cleared =>
          getBufferCount(pia) = FifoClamp(FifoCalls.enq - FifoCalls.deq)
    /\ last.op = "enqueue" /\ last.before = <<>> =>
          getKeypress(pia).v = last.value

\* C20 as the buffer keeps it: count is N - M when no enqueue met a full
\* FIFO and no dequeue an empty one; such calls change nothing, so count is
\* the enqueues accepted minus the dequeues that returned a byte, within
\* [0, 32]; an enqueue of k on an empty FIFO followed by a dequeue returns k
C20_CountIsAcceptedDifference ==
    /\ ~FifoCalls.cleared =>
          /\ getBufferCount(pia) =
                (FifoCalls.enq - FifoCalls.dropped)
                - (FifoCalls.deq - FifoCalls.missed)
          /\ getBufferCount(pia) \in 0 .. 32
          /\ FifoCalls.dropped = 0 /\ FifoCalls.missed = 0 =>
                getBufferCount(pia) = FifoCalls.enq - FifoCalls.deq
    /\ last.op = "enqueue" /\ last.before = <<>> =>
          /\ getKeypress(pia).v = last.value
          /\ Memory_read(Machine, kPiaMemoryStart + kPortAData).v = last.value

\* 33 keys were typed into the empty FIFO, the last of them dropped, and one
\* was dequeued: N - M is 32 and count is 31
C20_Witness ==
    /\ ~FifoCalls.cleared
    /\ last.op = "dequeue"
    /\ FifoCalls.enq = 33 /\ FifoCalls.dropped = 1
    /\ FifoCalls.deq = 1 /\ FifoCalls.missed = 0
    /\ getBufferCount(pia) = 31

\* what the control register shows for a byte c: bit 0 = key waiting,
\* bit 1 = 32 keys waiting, bit 2 = bit 0 and bit 3, bit 3 and bits 4-7 as in
\* the byte w last written
ControlShows(c, w, n) ==
    /\ TestBit(c, 1) = (n > 0)
    /\ TestBit(c, 2) = (n >= 32)
    /\ TestBit(c, 4) = (TestBit(c, 1) /\ TestBit(c, 8))
    /\ TestBit(c, 8) = TestBit(w, 8)
    /\ c \div 16 = w \div 16

\* C21: in every peripheral state and in every value a bus read of 0xDC02
\* returns, bit 0 = (count > 0), bit 1 = (count >= 32), bit 2 = (bit 0 AND
\* bit 3), and bit 3 and bits 4-7 are those of the last byte written to
\* 0xDC02, 0 if none was
C21_ControlRegisterBits ==
    /\ ControlShows(pia.port_a_control_, FifoCalls.control, pia.buffer_count_)
    /\ last.op = "readControl" =>
          ControlShows(last.result, FifoCalls.control,
                       last.pre.pia.buffer_count_)

\* the control register was read with the buffer full after 0x0F had been
\* written to it: all four low bits are set
C21_Witness ==
    /\ last.op = "readControl"
    /\ FifoCalls.control = 15
    /\ pia.buffer_count_ = 32
    /\ last.result = 15

(***************************************************************************)
(* SpecPump: the host writes the two file addresses once, then bus writes  *)
(* to the file registers and calls of the pump follow each other in any    *)
(* order.  A pump that does not return leaves phase "hung".                *)
(***************************************************************************)
\* first and last address of a range: the first 32 registers of the
\* peripheral window, the last page of the address space
PumpRanges == {<<56320, 56351>>, <<65280, 65535>>}

\* offset and value of the bus writes: command idle, load and save, low
\* bytes of the two addresses
PumpPokes ==
    {<<kFileCommand, kFileIdle>>, <<kFileCommand, kFileLoadCommand>>,
     <<kFileCommand, kFileSaveCommand>>, <<kFileCommand, 3>>,
     <<kFileStatus, kFileSuccess>>, <<kFileAddrLo, 0>>,
     <<kFileAddrLo, 16>>, <<kFileEndAddrLo, 0>>, <<kPortADdr, 90>>}

\* the registers a bus read is made of
PumpReads ==
    {kPortADdr, kFileCommand, kFileStatus, kFileAddrLo, kFileAddrHi,
     kFileEndAddrLo, kFileEndAddrHi}

PumpHosts == {"console", "cancelled", "failed_early", "failed_late", "done"}

\* the files a load reads: one byte that is the load command, two bytes
PumpFiles == {<<1>>, <<2, 7>>}

\* the bus writes that set file_address_ and file_end_address_
SetFileRange(m, first, end) ==
    Memory_write(
      Memory_write(
        Memory_write(
          Memory_write(m, kPiaMemoryStart + kFileAddrLo, Lo(first)),
          kPiaMemoryStart + kFileAddrHi, Hi(first)),
        kPiaMemoryStart + kFileEndAddrLo, Lo(end)),
      kPiaMemoryStart + kFileEndAddrHi, Hi(end))

\* the byte most recently written by a bus write to each PIA register, kept
\* beside the machine: no byte has been written to a register at power on
NoneWritten == [offset \in PumpReads |-> 0 - 1]

Written == IF "written" \in DOMAIN last THEN last.written ELSE NoneWritten

\* Written after the bus writes of bytes to first, first + 1, ...
WrittenAfter(written, first, bytes) ==
    [offset \in PumpReads |->
        IF \E i \in 1 .. Len(bytes) :
              Word16(first + i - 1) = kPiaMemoryStart + offset
        THEN bytes[CHOOSE i \in 1 .. Len(bytes) :
                      Word16(first + i - 1) = kPiaMemoryStart + offset]
        ELSE written[offset]]

PumpSetup ==
    /\ phase = "off"
    /\ \E range \in PumpRanges :
          /\ Becomes(SetFileRange(Machine, range[1], range[2]))
          /\ last' = [op |-> "setup", ok |-> TRUE, pre |-> Machine,
                      opcode |-> 0, top |-> NoPush,
                      written |->
                         WrittenAfter(
                           WrittenAfter(Written,
                                        kPiaMemoryStart + kFileAddrLo,
                                        <<Lo(range[1]), Hi(range[1])>>),
                           kPiaMemoryStart + kFileEndAddrLo,
                           <<Lo(range[2]), Hi(range[2])>>)]
    /\ phase' = "on"
    /\ UNCHANGED <<pushed, count>>

PumpPoke ==
    /\ phase = "on"
    /\ \E poke \in PumpPokes :
          /\ Becomes(Memory_write(Machine, kPiaMemoryStart + poke[1], poke[2]))
          /\ last' = [op |-> "write", ok |-> TRUE, pre |-> Machine,
                      opcode |-> 0, top |-> NoPush,
                      address |-> kPiaMemoryStart + poke[1], value |-> poke[2],
                      written |->
                         WrittenAfter(Written, kPiaMemoryStart + poke[1],
                                      <<poke[2]>>)]
    /\ UNCHANGED <<pushed, phase, count>>

\* a bus read of a PIA register
PumpRead ==
    /\ phase = "on"
    /\ \E offset \in PumpReads :
          \E r \in {Memory_read(Machine, kPiaMemoryStart + offset)} :
             /\ Becomes(r.m)
             /\ last' = [op |-> "read", ok |-> TRUE, pre |-> Machine,
                         opcode |-> 0, top |-> NoPush,
                         address |-> kPiaMemoryStart + offset,
                         result |-> r.v, written |-> Written]
    /\ UNCHANGED <<pushed, phase, count>>

\* PIA::processFileOperations
Pump ==
    /\ phase = "on"
    /\ \E host \in PumpHosts, buffer \in PumpFiles :
          \E r \in {processFileOperations(Machine, host, buffer)} :
             /\ Becomes(r.m)
             /\ last' = [op |-> "pump", ok |-> ~r.hung, pre |-> Machine,
                         opcode |-> 0, top |-> NoPush, host |-> host,
                         written |->
                            IF /\ hasFileOperation(pia)
                               /\ pia.file_command_ = kFileLoadCommand
                               /\ host = "done"
                            THEN WrittenAfter(Written, pia.file_address_,
                                              buffer)
                            ELSE Written]
             /\ phase' = IF r.hung THEN "hung" ELSE "on"
    /\ UNCHANGED <<pushed, count>>

NextPump == PumpSetup \/ PumpPoke \/ PumpRead \/ Pump

SpecPump == Init /\ [][NextPump]_vars

\* the pump keeps being called
SpecPumpFair == SpecPump /\ WF_vars(Pump)

\* the last operation was a pump that found a pending load or save and
\* returned
PumpActed == last.op = "pump" /\ last.ok /\ hasFileOperation(last.pre.pia)

\* C23: every pump that acts on a pending load or save leaves the command
\* register idle, with status success and with status error
C23_PumpLeavesCommandIdle ==
    PumpActed =>
       /\ pia.file_status_ \in {kFileSuccess, kFileError}
       /\ pia.file_command_ = kFileIdle

\* C24: once status is in-progress it becomes success or error in the end
\* when the pump keeps being called, whatever is written to the file
\* registers between pumps, and one pump that finds a pending load or save
\* does not leave status in-progress
C24_StatusResolves ==
    /\ [](PumpActed => pia.file_status_ # kFileInProgress)
    /\ (pia.file_status_ = kFileInProgress)
          ~> (pia.file_status_ \in {kFileSuccess, kFileError})

(***************************************************************************)
(* SpecRun: Computer6502::run.  Keys arrive between the calls of run; a    *)
(* call is followed step by step: phase "fetch" is the head of the loop,   *)
(* phase "pump" the point after an instruction that executed, phase "on"   *)
(* the computer outside run, phase "hung" a pump that does not return.     *)
(* last.run holds max_cycles, the loop counter i, the number of opcodes    *)
(* fetched, of instructions executed and of pumps called in this call.     *)
(***************************************************************************)
MaxRunOps == 3

MaxRunSteps == 4

RunLimits == {0, 2, MaxRunSteps}

\* 'A', 'B'
RunKeys == {65, 66}

RunOrg == RomBase

\* LDA $DC00 three times, then 'B', which is no opcode
RunReadKeys ==
    <<LDA_abs, 0, 220, LDA_abs, 0, 220, LDA_abs, 0, 220, 66>>

\* LDA #command; STA $DC10; NOP; 'B', with the end address as it is after
\* construction
RunCommand(command) ==
    <<LDA_imm, command, STA_abs, kFileCommand, 220, NOP_impl, 66>>

\* LDA #0xFF; STA $DC20; STA $DC21; LDA #2; STA $DC10; NOP: a save up to
\* 0xFFFF
RunSaveToTop ==
    <<LDA_imm, 255, STA_abs, kFileEndAddrLo, 220, STA_abs, kFileEndAddrHi, 220,
      LDA_imm, kFileSaveCommand, STA_abs, kFileCommand, 220, NOP_impl>>

RunPrograms ==
    {RunReadKeys, RunCommand(kFileLoadCommand), RunCommand(kFileSaveCommand),
     RunSaveToTop}

NoRun == [max |-> 0, i |-> 0, fetched |-> 0, executed |-> 0, pumps |-> 0]

RunState == IF "run" \in DOMAIN last THEN last.run ELSE NoRun

PowerOnRun ==
    /\ phase = "off"
    /\ \E code \in RunPrograms :
          PowerOn(Image(code, RunOrg, <<>>, RomBase, RunOrg, RunOrg))

\* MainWindow::onDisplayKeyPressed, between two calls of run
KeyRun == phase = "on" /\ \E k \in RunKeys : AddKeypress(k)

\* run(max_cycles) is called: int i = 0
RunCall ==
    /\ phase = "on"
    /\ count < MaxRunOps
    /\ \E max_cycles \in RunLimits :
          last' = [op |-> "run", ok |-> TRUE, pre |-> Machine, opcode |-> 0,
                   top |-> NoPush, run |-> [NoRun EXCEPT !.max = max_cycles]]
    /\ log' = <<>>
    /\ phase' = "fetch"
    /\ count' = count + 1
    /\ UNCHANGED <<reg, cycles, ram, vic, pia, pushed>>

\* i < max_cycles: cpu.executeSingleInstruction(), break when it returns
\* false
RunExecute ==
    /\ phase = "fetch"
    /\ RunState.i < RunState.max
    /\ \E r \in {executeSingleInstruction(Machine)} :
          /\ Becomes(r.m)
          /\ last' = [op |-> "step", ok |-> r.ok, pre |-> Machine,
                      opcode |-> r.opcode, top |-> Top(pushed),
                      run |-> [RunState EXCEPT
                                 !.fetched = @ + 1,
                                 !.executed = IF r.ok THEN @ + 1 ELSE @]]
          /\ pushed' = PushedAfter(pushed, Machine, r.m, r.opcode)
          /\ phase' = IF r.ok THEN "pump" ELSE "on"
    /\ UNCHANGED count

\* pia.processFileOperations(); ++i
RunPump ==
    /\ phase = "pump"
    /\ \E host \in PumpHosts, buffer \in PumpFiles :
          \E r \in {processFileOperations(Machine, host, buffer)} :
             /\ Becomes(r.m)
             /\ last' = [op |-> "pump", ok |-> ~r.hung, pre |-> Machine,
                         opcode |-> 0, top |-> NoPush,
                         run |-> [RunState EXCEPT
                                    !.i = IF r.hung THEN @ ELSE @ + 1,
                                    !.pumps = @ + 1]]
             /\ phase' = IF r.hung THEN "hung" ELSE "fetch"
    /\ UNCHANGED <<pushed, count>>

\* i = max_cycles: the loop ends and run returns
RunReturn ==
    /\ phase = "fetch"
    /\ RunState.i >= RunState.max
    /\ last' = [op |-> "return", ok |-> TRUE, pre |-> Machine, opcode |-> 0,
                top |-> NoPush, run |-> RunState]
    /\ log' = <<>>
    /\ phase' = "on"
    /\ UNCHANGED <<reg, cycles, ram, vic, pia, pushed, count>>

NextRun ==
    PowerOnRun \/ KeyRun \/ RunCall \/ RunExecute \/ RunPump \/ RunReturn

SpecRun == Init /\ [][NextRun]_vars

\* the loop of run goes on.  At the head of the loop either RunExecute or
\* RunReturn can be taken, after an instruction RunPump can, and each of
\* them changes phase: these two actions say as much without running the
\* instruction again
RunLeavesFetch == phase = "fetch" /\ phase' \in {"pump", "on"}

RunLeavesPump == phase = "pump" /\ phase' \in {"fetch", "hung"}

\* run is one loop on one thread and nothing suspends it
SpecRunFair ==
    SpecRun /\ WF_phase(RunLeavesFetch) /\ WF_phase(RunLeavesPump)

\* the positions in the log of the last operation that read this address
LogReads(address) == {j \in DOMAIN log : log[j] = <<"r", address>>}

\* the last instruction was an LDA with the keyboard data register as its
\* absolute operand
LastLoadsKey ==
    /\ LastIsStep /\ last.ok
    /\ last.opcode = LDA_abs
    /\ LastOperandAddress = kPiaMemoryStart + kPortAData

\* C22: an LDA $DC00 reads 0xDC00 once; with a byte queued it loads the
\* oldest one into A and the count drops by 1, with none queued it loads 0
\* and the FIFO stays as it was
C22_LoadDequeuesOneKey ==
    LastLoadsKey =>
       /\ Cardinality(LogReads(kPiaMemoryStart + kPortAData)) = 1
       /\ last.pre.pia.buffer_count_ >= 1 =>
             /\ reg.A = RingContents(last.pre.pia)[1]
             /\ pia.buffer_count_ = last.pre.pia.buffer_count_ - 1
             /\ RingContents(pia) = Tail(RingContents(last.pre.pia))
       /\ last.pre.pia.buffer_count_ = 0 =>
             /\ reg.A = 0
             /\ pia.buffer_count_ = 0
             /\ pia.buffer_head_ = last.pre.pia.buffer_head_
             /\ pia.buffer_tail_ = last.pre.pia.buffer_tail_
             /\ pia.keyboard_buffer_ = last.pre.pia.keyboard_buffer_

\* 'A' and 'B' were typed and two loads took them: the third load found the
\* FIFO empty and A is 0
C22_Witness ==
    /\ LastLoadsKey
    /\ last.run.fetched = 3
    /\ pia.keyboard_buffer_[0] = 65 /\ pia.keyboard_buffer_[1] = 66
    /\ pia.buffer_head_ = 2 /\ pia.buffer_tail_ = 2
    /\ last.pre.pia.buffer_count_ = 0
    /\ reg.A = 0

\* what holds at every point of a call of run: no more than max_cycles
\* instructions are fetched, the pump has run once for each instruction that
\* executed, save the one it is about to follow, and run is left at the
\* first opcode without a handler
RunCounts ==
    /\ RunState.fetched <= RunState.max
    /\ phase \in {"fetch", "on", "hung"} => RunState.pumps = RunState.executed
    /\ phase = "pump" => RunState.pumps + 1 = RunState.executed
    /\ LastIsStep => phase = IF last.ok THEN "pump" ELSE "on"
    /\ RunState.fetched > RunState.executed =>
          /\ phase = "on"
          /\ RunState.fetched = RunState.executed + 1

\* C25: run(max_steps) returns after at most max_steps instructions, calls
\* the pump once after each instruction that executed and before the next
\* fetch, and returns at once at the first illegal opcode
C25_RunReturns ==
    /\ []RunCounts
    /\ (phase \in {"fetch", "pump"}) ~> (phase = "on")

(***************************************************************************)
(* SpecDisplay: the callbacks of the window's event loop that touch the    *)
(* framebuffer.  The CPU writes screen cells while run executes, the       *)
(* refresh timer calls DisplayWidget::refreshDisplay, and the paint event  *)
(* that update() has scheduled is delivered later.  last.display is the    *)
(* widget: needs_full_redraw_, whether a paint event is scheduled, the     *)
(* cells the last paint drew, and whether a cell was written since.        *)
(***************************************************************************)
\* the first and the last cell of the screen
DisplayCells == {<<0, 0>>, <<39, 24>>}

\* 'H', 'I'
DisplayValues == {72, 73}

\* DisplayWidget::DisplayWidget
NewDisplay ==
    [needs_full_redraw_ |-> TRUE, scheduled |-> FALSE, painted |-> <<>>,
     unseen |-> FALSE]

Display == IF "display" \in DOMAIN last THEN last.display ELSE NewDisplay

\* what paintEvent reads: getCharacterAt for the cells
Grid(v) == <<getCharacterAt(v, 0, 0), getCharacterAt(v, 39, 24)>>

\* refreshDisplay as it would be had it asked for a repaint only when
\* needs_full_redraw_ is set
refreshDisplay_ignoresDirty(v, w) ==
    IF isDirty(v) \/ w.needs_full_redraw_
    THEN [vic |-> clearDirty(v),
          display |-> [w EXCEPT !.scheduled = @ \/ w.needs_full_redraw_]]
    ELSE [vic |-> v, display |-> w]

\* DisplayWidget::refreshDisplay: update() schedules a paint event
refreshDisplay(v, w) ==
    IF isDirty(v) \/ w.needs_full_redraw_
    THEN [vic |-> clearDirty(v), display |-> [w EXCEPT !.scheduled = TRUE]]
    ELSE [vic |-> v, display |-> w]

\* DisplayWidget::paintEvent
paintEvent(v, w) ==
    [w EXCEPT !.painted = Grid(v), !.needs_full_redraw_ = FALSE,
              !.scheduled = FALSE, !.unseen = FALSE]

DisplayCall(op, m, w) ==
    /\ Becomes(m)
    /\ last' = [op |-> op, ok |-> TRUE, pre |-> Machine, opcode |-> 0,
                top |-> NoPush, display |-> w, before |-> Display]
    /\ phase' = "on"
    /\ UNCHANGED <<pushed, count>>

\* the window is shown
DisplayShow == phase = "off" /\ DisplayCall("show", Machine, NewDisplay)

\* a store of the running program to a screen cell
DisplayWrite ==
    /\ phase = "on"
    /\ \E cell \in DisplayCells, value \in DisplayValues :
          DisplayCall("write",
                      Memory_write(Machine,
                                   kScreenMemoryStart
                                     + coordinatesToOffset(cell[1], cell[2]),
                                   value),
                      [Display EXCEPT !.unseen = TRUE])

DisplayRefresh ==
    /\ phase = "on"
    /\ \E r \in {refreshDisplay(vic, Display)} :
          DisplayCall("refresh", [Machine EXCEPT !.vic = r.vic], r.display)

DisplayPaint ==
    /\ phase = "on"
    /\ Display.scheduled
    /\ DisplayCall("paint", Machine, paintEvent(vic, Display))

NextDisplay == DisplayShow \/ DisplayWrite \/ DisplayRefresh \/ DisplayPaint

SpecDisplay == Init /\ [][NextDisplay]_vars

\* C26: with screen writes, refreshes and paints in any order no write is
\* lost: after a write either the dirty flag is set or a paint that will
\* read the grid is scheduled, and a paint draws the cells as they are
C26_NoWriteLost ==
    /\ Display.unseen => isDirty(vic) \/ Display.scheduled
    /\ Display.painted # <<>> /\ Display.painted # Grid(vic) =>
          isDirty(vic) \/ Display.scheduled
    /\ last.op = "paint" => Display.painted = Grid(vic)

\* a cell was written between the refresh that cleared the dirty flag and
\* the paint it had scheduled: the paint drew the cell and the flag is
\* still set
C26_Witness ==
    /\ last.op = "paint"
    /\ last.before.unseen /\ last.before.scheduled
    /\ isDirty(vic)
    /\ Display.painted = <<72, 73>>

(***************************************************************************)
(* More claims about the ALU                                               *)
(***************************************************************************)
\* C27: with D = 0, one SBC leaves A = (A - M - (1 - C)) mod 256 and sets
\* carry exactly when A - M - (1 - C) is not negative
C27_SbcDifferenceAndBorrow ==
    LastFam = "Sbc" /\ LastBinary =>
        LET diff == last.pre.reg.A - LastOperand - (1 - CarryIn)
        IN /\ reg.A = (diff + 256) % 256
           /\ getFlag(reg.P, kCarry) = (diff >= 0)

\* an SBC of 0x00 - 0x00 with carry clear has run: the difference wraps to
\* 0xFF and the borrow shows as carry clear
C27_Witness ==
    /\ LastFam = "Sbc" /\ LastBinary
    /\ last.pre.reg.A = 0 /\ LastOperand = 0 /\ CarryIn = 0
    /\ reg.A = 255 /\ ~getFlag(reg.P, kCarry)

(***************************************************************************)
(* SpecBcd: SED, CLC or SEC, LDA #a and ADC #m for BCD bytes a and m.      *)
(***************************************************************************)
MaxBcdSteps == 4

\* the bytes whose two nibbles are decimal digits
BcdBytes == {16 * hi + lo : hi \in 0 .. 9, lo \in 0 .. 9}

BcdOperands == {0, 1, 9, 16, 25, 69, 80, 117, 144, 152, 153}

BcdImage(a, c, operand) ==
    Image(<<SED_impl, c, LDA_imm, a, ADC_imm, operand>>,
          AluOrg, <<>>, RomBase, AluOrg, AluOrg)

PowerOnBcd ==
    /\ phase = "off"
    /\ \E a \in BcdBytes, c \in {CLC_impl, SEC_impl}, operand \in BcdOperands :
          PowerOn(BcdImage(a, c, operand))

StepBcd == Step(MaxBcdSteps)

NextBcd == PowerOnBcd \/ StepBcd

SpecBcd == Init /\ [][NextBcd]_vars

\* the number a BCD byte stands for and the BCD byte of a number below 100
BcdDecode(b) == 10 * (b \div 16) + (b % 16)

BcdEncode(n) == 16 * (n \div 10) + (n % 10)

\* the last instruction was an ADC in decimal mode on two BCD bytes
LastDecimalAdc ==
    /\ LastFam = "Adc"
    /\ getFlag(last.pre.reg.P, kDecimal)
    /\ last.pre.reg.A \in BcdBytes /\ LastOperand \in BcdBytes

\* C28: with D = 1 and BCD bytes A and M, ADC leaves A = the BCD byte of
\* (dec(A) + dec(M) + C) mod 100 and sets carry exactly when
\* dec(A) + dec(M) + C exceeds 99
C28_DecimalAdc ==
    LastDecimalAdc =>
        LET sum == BcdDecode(last.pre.reg.A) + BcdDecode(LastOperand) + CarryIn
        IN /\ reg.A = BcdEncode(sum % 100)
           /\ getFlag(reg.P, kCarry) = (sum > 99)

(***************************************************************************)
(* Claims about Z and N                                                    *)
(***************************************************************************)
\* the byte a read-modify-write instruction works on: A in accumulator
\* mode, the operand in memory otherwise
LastSubject ==
    IF LastMode = "acc" THEN last.pre.reg.A ELSE LastOperand

\* the result byte of the last instruction: the register a load, transfer,
\* pull, logic or arithmetic instruction has written, and the byte an
\* increment, decrement, shift or rotate has computed
LastResult ==
    CASE LastFam \in {"Lda", "Txa", "Tya", "Pla", "And", "Ora", "Eor",
                      "Adc", "Sbc"} -> reg.A
      [] LastFam \in {"Ldx", "Tax", "Tsx", "Inx", "Dex"} -> reg.X
      [] LastFam \in {"Ldy", "Tay", "Iny", "Dey"} -> reg.Y
      [] LastFam = "Inc" -> (LastSubject + 1) % 256
      [] LastFam = "Dec" -> (LastSubject + 255) % 256
      [] LastFam = "Asl" -> (2 * LastSubject) % 256
      [] LastFam = "Lsr" -> LastSubject \div 2
      [] LastFam = "Rol" -> (2 * LastSubject + CarryIn) % 256
      [] LastFam = "Ror" -> (LastSubject \div 2) + 128 * CarryIn
      [] OTHER -> 0

SetsZeroNegative ==
    {"Lda", "Ldx", "Ldy", "Tax", "Tay", "Tsx", "Txa", "Tya", "Pla", "And",
     "Ora", "Eor", "Inc", "Dec", "Inx", "Iny", "Dex", "Dey", "Asl", "Lsr",
     "Rol", "Ror", "Adc", "Sbc"}

\* C29: after a load, transfer, PLA, logic, increment, decrement, shift,
\* rotate, ADC or SBC instruction Z is set exactly when the result byte is 0
\* and N is bit 7 of the result; TXS and the stores leave Z and N as they
\* were
C29_ZeroNegativeFollowResult ==
    /\ LastFam \in SetsZeroNegative =>
          /\ getFlag(reg.P, kZero) = (LastResult = 0)
          /\ getFlag(reg.P, kNegative) = (LastResult >= 128)
    /\ LastFam \in {"Txs", "Sta", "Stx", "Sty"} =>
          /\ getFlag(reg.P, kZero) = getFlag(last.pre.reg.P, kZero)
          /\ getFlag(reg.P, kNegative) = getFlag(last.pre.reg.P, kNegative)

\* an INX of 0xFF has run after a load that had set N: the result is 0, Z
\* is set and N is clear
C29_Witness ==
    /\ LastFam = "Inx"
    /\ last.pre.reg.X = 255 /\ reg.X = 0
    /\ getFlag(last.pre.reg.P, kNegative)
    /\ getFlag(reg.P, kZero) /\ ~getFlag(reg.P, kNegative)

npos == 0 - 1

\* the first position at or after from where str holds ch
RECURSIVE Find(_, _, _)
Find(str, ch, from) ==
    IF from >= Len(str) THEN npos
    ELSE IF str[from + 1] = ch THEN from
    ELSE Find(str, ch, from + 1)

\* std::string::substr(pos, n): n is a size_t, so a negative n is a huge
\* one and the rest of the string is taken
SubStr(str, pos, n) ==
    LET last_ == IF n < 0 \/ pos + n > Len(str) THEN Len(str) ELSE pos + n
    IN [i \in 1 .. last_ - pos |-> str[pos + i]]

\* the value a character adds in hexStringToUint16: no digit adds nothing
HexDigit(c) ==
    IF c >= 48 /\ c <= 57 THEN c - 48
    ELSE IF c >= 65 /\ c <= 70 THEN c - 65 + 10
    ELSE IF c >= 97 /\ c <= 102 THEN c - 97 + 10
    ELSE 0

\* CommandParser::hexStringToUint16 after the first n characters
RECURSIVE HexValue(_, _)
HexValue(str, n) ==
    IF n = 0 THEN 0
    ELSE (((HexValue(str, n - 1) * 16) % 65536) + HexDigit(str[n])) % 65536

hexStringToUint16(str) == HexValue(str, Len(str))

hexStringToUint8(str) == hexStringToUint16(str) % 256

\* CommandParser::splitString from position start on
RECURSIVE SplitFrom(_, _, _)
SplitFrom(str, delimiter, start) ==
    IF Find(str, delimiter, start) = npos
    THEN <<SubStr(str, start, Len(str) - start)>>
    ELSE <<SubStr(str, start, Find(str, delimiter, start) - start)>>
         \o SplitFrom(str, delimiter, Find(str, delimiter, start) + 1)

splitString(str, delimiter) == SplitFrom(str, delimiter, 0)

ParseFailure(error) ==
    [success |-> FALSE, error |-> error, startAddr |-> 0, endAddr |-> 0,
     pattern |-> <<>>]

\* the part of parseSearchCommand that follows the search for the
\* separators
parseSearchFields(cmd, dashPos, commaPos) ==
    LET startStr == SubStr(cmd, 2, dashPos - 2)
        endStr == SubStr(cmd, dashPos + 1, commaPos - dashPos - 1)
        patternBytes == splitString(SubStr(cmd, commaPos + 1, Len(cmd)), 32)
        startAddr == hexStringToUint16(startStr)
        endAddr == hexStringToUint16(endStr)
        parsed == [success |-> FALSE, error |-> "", startAddr |-> startAddr,
                   endAddr |-> endAddr, pattern |-> <<>>]
    IN IF Len(startStr) # 4 \/ Len(endStr) # 4
       THEN ParseFailure("Invalid address format")
       ELSE IF Len(patternBytes) = 0 \/ Len(patternBytes) > 16
       THEN [parsed EXCEPT !.error = "Pattern must be 1-16 bytes"]
       ELSE IF \E i \in DOMAIN patternBytes : Len(patternBytes[i]) # 2
       THEN [parsed EXCEPT
               !.error = "Each pattern byte must be 2 hex digits",
               !.pattern =
                  [i \in 1 .. (CHOOSE k \in DOMAIN patternBytes :
                                  /\ Len(patternBytes[k]) # 2
                                  /\ \A j \in 1 .. k - 1 :
                                        Len(patternBytes[j]) = 2) - 1 |->
                      hexStringToUint8(patternBytes[i])]]
       ELSE IF startAddr > endAddr
       THEN [parsed EXCEPT
               !.error = "Start address > end address",
               !.pattern = [i \in DOMAIN patternBytes |->
                               hexStringToUint8(patternBytes[i])]]
       ELSE [parsed EXCEPT
               !.success = TRUE,
               !.pattern = [i \in DOMAIN patternBytes |->
                               hexStringToUint8(patternBytes[i])]]

\* CommandParser::parseSearchCommand; 88, 58, 45 and 44 are 'X', ':', '-'
\* and ','
parseSearchCommand(cmd) ==
    IF Len(cmd) < 12 \/ cmd[1] # 88 \/ cmd[2] # 58
    THEN ParseFailure("Invalid X: command syntax")
    ELSE IF Find(cmd, 45, 0) = npos \/ Find(cmd, 44, 0) = npos
    THEN ParseFailure("Missing dash or comma")
    ELSE parseSearchFields(cmd, Find(cmd, 45, 0), Find(cmd, 44, 0))

(***************************************************************************)
(* SpecParse: one command is handed to parseSearchCommand.                 *)
(***************************************************************************)
MaxTokens == 3

\* "X:" and "F:"
ParsePrefixes == {<<88, 58>>, <<70, 58>>}

\* "8000", "8FFF", "800"
ParseAddresses == {<<56, 48, 48, 48>>, <<56, 70, 70, 70>>, <<56, 48, 48>>}

\* "4C", "a9", "GG", "g1", "4"
ParseTokens == {<<52, 67>>, <<97, 57>>, <<71, 71>>, <<103, 49>>, <<52>>}

\* the tokens of a pattern with a space between them
RECURSIVE JoinTokens(_)
JoinTokens(tokens) ==
    IF tokens = <<>> THEN <<>>
    ELSE IF Len(tokens) = 1 THEN tokens[1]
    ELSE tokens[1] \o <<32>> \o JoinTokens(Tail(tokens))

ParsePatterns == UNION {[1 .. n -> ParseTokens] : n \in 0 .. MaxTokens}

ParseSearch ==
    /\ phase = "off"
    /\ \E prefix \in ParsePrefixes, first \in ParseAddresses,
          end \in ParseAddresses, tokens \in ParsePatterns :
          \E cmd \in {prefix \o first \o <<45>> \o end \o <<44>>
                      \o JoinTokens(tokens)} :
             last' = [op |-> "parseSearch", ok |-> TRUE, pre |-> Machine,
                      opcode |-> 0, top |-> NoPush, cmd |-> cmd,
                      prefix |-> prefix, first |-> first, end |-> end,
                      tokens |-> tokens,
                      result |-> parseSearchCommand(cmd)]
    /\ phase' = "parsed"
    /\ UNCHANGED <<reg, cycles, ram, vic, pia, log, pushed, count>>

SpecParse == Init /\ [][ParseSearch]_vars

\* the characters that are hexadecimal digits
HexCharacters == (48 .. 57) \cup (65 .. 70) \cup (97 .. 102)

\* the command parsed last is an X: command with two addresses of four
\* digits, the first not above the second, and one to sixteen tokens of two
\* characters each
LastSearchWellFormed ==
    /\ last.op = "parseSearch"
    /\ last.prefix = <<88, 58>>
    /\ Len(last.first) = 4 /\ Len(last.end) = 4
    /\ last.first \in {<<56, 48, 48, 48>>} \/ last.end \in {<<56, 70, 70, 70>>}
    /\ Len(last.tokens) \in 1 .. 16
    /\ \A i \in DOMAIN last.tokens : Len(last.tokens[i]) = 2

\* one of its tokens has a character that is no hexadecimal digit
LastPatternHasBadDigit ==
    \E i \in DOMAIN last.tokens :
       \E j \in DOMAIN last.tokens[i] : last.tokens[i][j] \notin HexCharacters

\* the error texts of the parser that contain "hex"
HexErrors == {"Each pattern byte must be 2 hex digits"}

\* C31: parseSearchCommand rejects, with an error text that contains "hex",
\* every X: command whose pattern has a byte token with a character that
\* is no hexadecimal digit; the commands looked at have nothing else wrong
\* with them
C31_SearchRejectsBadDigits ==
    LastSearchWellFormed /\ LastPatternHasBadDigit =>
       /\ ~last.result.success
       /\ last.result.error \in HexErrors


\* ---------------------------------------------------------------------
\* C32: the file status register on the bus

\* the last operation is a bus write of value to the PIA register at offset
LastWrote(offset) ==
    last.op = "write" /\ last.address = kPiaMemoryStart + offset

\* C32: a bus write of 0x01 or 0x02 to 0xDC10 sets the file status to
\* in-progress (0x01); a bus write of any other value to 0xDC10 and any bus
\* write to 0xDC11 leave the file status as it was; and no bus operation
\* other than these changes it: only the pump does
C32_StatusWrittenOnlyByCommand ==
    /\ LastWrote(kFileCommand) /\ last.value \in {1, 2} =>
          pia.file_status_ = 1
    /\ LastWrote(kFileCommand) /\ last.value \notin {1, 2} =>
          pia.file_status_ = last.pre.pia.file_status_
    /\ LastWrote(kFileStatus) => pia.file_status_ = last.pre.pia.file_status_
    /\ last.op \in {"setup", "write", "read"} /\ ~LastWrote(kFileCommand) =>
          pia.file_status_ = last.pre.pia.file_status_

\* a write of 0x02 to the status register while a load is in progress
\* leaves the status in-progress
C32_Witness ==
    /\ LastWrote(kFileStatus)
    /\ last.value = 2
    /\ last.pre.pia.file_status_ = 1
    /\ pia.file_status_ = 1


\* ---------------------------------------------------------------------
\* C33: reading back the PIA registers

\* the registers whose read gives the value written
ValueRegisters ==
    {kPortADdr, kFileAddrLo, kFileAddrHi, kFileEndAddrLo, kFileEndAddrHi}

\* the last operation is a bus read of the PIA register at offset
LastRead(offset) ==
    last.op = "read" /\ last.address = kPiaMemoryStart + offset

\* C33: a bus read of Port A DDR, of the file address bytes and of the file
\* end address bytes returns the byte most recently written to that register
\* by a bus write, and a bus read of the file command register 0xDC10
\* returns the current file status
C33_ReadsGiveWrittenValue ==
    /\ \A offset \in ValueRegisters :
          LastRead(offset) /\ Written[offset] >= 0 =>
             last.result = Written[offset]
    /\ LastRead(kFileCommand) => last.result = last.pre.pia.file_status_


\* ---------------------------------------------------------------------
\* C35: a file save reads its range once and ends

\* the last operation is a pump that found a save pending for a range with
\* file_address_ <= file_end_address_ and a host that lets it open the file
LastSaveReads ==
    /\ last.op = "pump"
    /\ last.host \in {"failed_late", "done"}
    /\ last.pre.pia.file_command_ = kFileSaveCommand
    /\ last.pre.pia.file_status_ = kFileInProgress
    /\ last.pre.pia.file_address_ <= last.pre.pia.file_end_address_

\* C35: a file save with file address <= file end address ends for every
\* end address, 0xFFFF included, after reading exactly end - start + 1 bytes
\* from the bus, one per address of the range in ascending order
C35_SaveReadsRangeAndEnds ==
    LastSaveReads =>
       /\ last.ok
       /\ log = [i \in 1 .. (last.pre.pia.file_end_address_
                               - last.pre.pia.file_address_ + 1) |->
                    <<"r", last.pre.pia.file_address_ + i - 1>>]


(***************************************************************************)
(* SpecEdge: calls of Memory::read, write, readWord, writeWord and         *)
(* loadProgram at the ends of the address space.  ram_ is a vector of      *)
(* 0x10000 bytes; last.indexed holds the indices at which the call         *)
(* subscripts it.  A subscript past the end is undefined behaviour: the    *)
(* byte is stored beyond the vector's elements, or the process is aborted. *)
(***************************************************************************)
MaxEdgeOps == 2

\* 0x0000, 0x0400, 0xDC00, 0xFFFE, 0xFFFF
EdgeAddresses == {0, 1024, 56320, 65534, 65535}

EdgeValues == {72}

EdgeWords == {18505, 255}

EdgeImages == {<<1>>, <<1, 2>>, <<1, 2, 3>>}

kRamSize == 65536

\* the subscripts of ram_ in Memory::read and Memory::write: address is a
\* uint16_t, and the windows are served by the chips
AccessIndices(address) ==
    IF isPiaAddress(address) \/ isScreenAddress(address) THEN {} ELSE {address}

\* the subscripts of ram_ in Memory::readWord: read(address + 1) takes a
\* uint16_t
readWordIndices(address) ==
    AccessIndices(address) \cup AccessIndices(Word16(address + 1))

\* the subscripts of ram_ in Memory::writeWord: address + 1 is an int
writeWordIndices(address) == {address, address + 1}

\* the subscripts of ram_ in Memory::loadProgram: start_address + i is a
\* size_t
loadProgramIndices(program, start_address) ==
    {start_address + i - 1 : i \in DOMAIN program}

\* what a call that subscripts ram_ at indexed does: it returns after, or,
\* when a subscript is past the end, may also abort the process
EdgeCall(op, address, indexed, after) ==
    /\ phase = "off"
    /\ count < MaxEdgeOps
    /\ \E outcome \in IF indexed \subseteq 0 .. kRamSize - 1
                      THEN {"returned"} ELSE {"returned", "aborted"} :
          /\ Becomes(IF outcome = "returned" THEN after ELSE Machine)
          /\ last' = [op |-> op, ok |-> outcome = "returned", pre |-> Machine,
                      opcode |-> 0, top |-> NoPush, address |-> address,
                      indexed |-> indexed]
          /\ phase' = IF outcome = "returned" THEN "off" ELSE "aborted"
    /\ pushed' = <<>>
    /\ count' = count + 1

EdgeRead ==
    \E address \in EdgeAddresses :
       EdgeCall("read", address, AccessIndices(address),
                Memory_read(Machine, address).m)

EdgeWrite ==
    \E address \in EdgeAddresses, value \in EdgeValues :
       EdgeCall("write", address, AccessIndices(address),
                Memory_write(Machine, address, value))

EdgeReadWord ==
    \E address \in EdgeAddresses :
       EdgeCall("readWord", address, readWordIndices(address),
                Memory_readWord(Machine, address).m)

EdgeWriteWord ==
    \E address \in EdgeAddresses, value \in EdgeWords :
       EdgeCall("writeWord", address, writeWordIndices(address),
                Memory_writeWord(Machine, address, value))

EdgeLoadProgram ==
    \E start_address \in EdgeAddresses, program \in EdgeImages :
       EdgeCall("loadProgram", start_address,
                loadProgramIndices(program, start_address),
                Memory_loadProgram(Machine, program, start_address))

NextEdge ==
    EdgeRead \/ EdgeWrite \/ EdgeReadWord \/ EdgeWriteWord \/ EdgeLoadProgram

SpecEdge == Init /\ [][NextEdge]_vars

\* the last operation is a bus operation of SpecEdge
LastIsBusOperation ==
    last.op \in {"read", "write", "readWord", "writeWord", "loadProgram"}

\* C34: every bus operation is total over the 16-bit address space: read,
\* write, read_word, write_word and load_image return and access only RAM
\* cells with index in [0, 0xFFFF]; the high byte of write_word(0xFFFF, v)
\* and image bytes that would fall past 0xFFFF never index outside the
\* 64 KiB store
C34_BusOperationsStayInRam ==
    LastIsBusOperation /\ "indexed" \in DOMAIN last =>
       /\ last.ok
       /\ last.indexed \subseteq 0 .. 65535


\* ---------------------------------------------------------------------
\* C36: the page-crossing cycle

\* the base address the last instruction adds its index to: the operand word
\* in the abs,X and abs,Y modes, the pointer read from page 0 in (zp),Y
LastIndexBase ==
    LET operand == Word16(last.pre.reg.PC + 1)
        zp == Peek(last.pre, operand)
    IN IF LastMode = "indy"
       THEN Peek(last.pre, zp) + 256 * Peek(last.pre, (zp + 1) % 256)
       ELSE Peek(last.pre, operand) + 256 * Peek(last.pre, Word16(operand + 1))

LastIndex == IF LastMode = "absx" THEN last.pre.reg.X ELSE last.pre.reg.Y

\* adding the index changes the high address byte
LastIndexCrossesPage ==
    LastIndexBase \div 256 # ((LastIndexBase + LastIndex) % 65536) \div 256

LastIsIndexed ==
    LastIsStep /\ last.ok /\ LastMode \in {"absx", "absy", "indy"}

\* C36: the cost of one step of an instruction in the abs,X, abs,Y or (zp),Y
\* mode is fixed by the opcode, but for one more cycle exactly when the
\* instruction is a read and adding the index changes the high address byte:
\* stores and read-modify-write instructions cost the same whether or not a
\* page is crossed, and an index of 0 costs nothing extra
C36_PageCrossCostsOneOnReads ==
    LastIsIndexed =>
       LastCycles = PublishedCycles(LastFam, LastMode) + 1
                    + (IF LastFam \in ReadFamilies /\ LastIndexCrossesPage
                       THEN 1 ELSE 0)

\* LDA abs,X whose index carries into the high address byte
C36_Witness ==
    /\ LastIsIndexed
    /\ LastFam = "Lda" /\ LastMode = "absx"
    /\ LastIndexCrossesPage
    /\ LastCycles = 6


\* ---------------------------------------------------------------------
\* C37: the program counter after a step

\* the length in bytes of an instruction by addressing mode
InstructionLength(mode) ==
    CASE mode \in {"impl", "acc"} -> 1
      [] mode \in {"imm", "zp", "zpx", "zpy", "indx", "indy", "rel"} -> 2
      [] mode \in {"abs", "absx", "absy"} -> 3

\* the last instruction is one that sets the program counter itself: JMP,
\* JSR, RTS, RTI, BRK or a branch that is taken
LastTransfersControl ==
    \/ LastMode \in {"jabs", "jind"}
    \/ LastFam \in {"Jsr", "Rts", "Rti", "Brk"}
    \/ LastMode = "rel" /\ LastBranchTaken

\* C37: one step of a legal opcode other than a taken branch, JMP, JSR, RTS,
\* RTI and BRK leaves PC = (old PC + instruction length) mod 65536: length 1
\* for the implied and accumulator modes, 2 for the immediate, zero-page,
\* zero-page indexed, (zp,X), (zp),Y and relative modes, 3 for the absolute
\* and absolute indexed modes
C37_PcAdvancesByLength ==
    LastIsStep /\ last.ok /\ ~LastTransfersControl =>
       reg.PC = (last.pre.reg.PC + InstructionLength(LastMode)) % 65536

\* LDA $0010 fetched at 0xFFFE left the program counter at 0x0001
C37_Witness ==
    /\ LastIsStep /\ last.ok
    /\ LastMode = "abs"
    /\ last.pre.reg.PC = 65534
    /\ reg.PC = 1


(***************************************************************************)
(* SpecInterrupt: a program that sets SP, sets P through PHA / PLP, pushes *)
(* and pulls with PHP / PLA and calls a subroutine whose first instruction *)
(* is a BRK; the interrupt vector points at an RTI and an RTS stands where *)
(* the RTI returns to.  The start values of SP make every push and pull    *)
(* pass the ends of the stack page.                                        *)
(***************************************************************************)
MaxInterruptSteps == 11

InterruptStarts == {255, 4, 3, 2, 1, 0}

InterruptStatus == {0, 16, 195, 255}

\* the subroutine at 0xF020 and the interrupt handler at 0xF040
InterruptSub == RomBase + 32

InterruptHandler == RomBase + 64

\* LDX #sp; TXS; LDA #p; PHA; PLP; PHP; PLA; JSR sub / sub: BRK; two bytes
\* the BRK skips; RTS / handler: RTI
InterruptCode(sp, p) ==
    [j \in 1 .. 65 |->
        CASE j <= 12 ->
               <<LDX_imm, sp, TXS_impl, LDA_imm, p, PHA_impl, PLP_impl,
                 PHP_impl, PLA_impl, JSR_abs, Lo(InterruptSub),
                 Hi(InterruptSub)>>[j]
          [] j = 36 -> RTS_impl
          [] j = 65 -> RTI_impl
          [] OTHER -> 0]

InterruptImage(sp, p) ==
    Image(InterruptCode(sp, p), RomBase, <<>>, RomBase, RomBase,
          InterruptHandler)

PowerOnInterrupt ==
    /\ phase = "off"
    /\ \E sp \in InterruptStarts, p \in InterruptStatus :
          PowerOn(InterruptImage(sp, p))

StepInterrupt == Step(MaxInterruptSteps)

NextInterrupt == PowerOnInterrupt \/ StepInterrupt

SpecInterrupt == Init /\ [][NextInterrupt]_vars

\* the byte in the stack page at offset sp, wrapped into the page, before
\* the last instruction ran
StackByteBefore(sp) == Peek(last.pre, StackPage + (sp % 256))

\* the last instruction is an RTI
LastIsRti == LastIsStep /\ last.ok /\ LastFam = "Rti"

\* the last instruction is an RTI and the one before it was a BRK
LastIsRtiAfterBrk ==
    /\ LastIsRti
    /\ last.prior.op = "step" /\ last.prior.ok
    /\ last.prior.opcode = 0

\* a status byte with B cleared and U set
WithoutBreak(p) == WithBit(WithBit(p, kBreak, FALSE), kUnused, TRUE)

\* C38: RTI pulls P first, clearing B and forcing U, and then PC low and PC
\* high with no + 1; so a BRK followed by an RTI at the vector target leaves
\* SP as it was before the BRK, P as it was before the BRK with B cleared and
\* U set, and PC at the return address that the BRK pushed
C38_RtiUndoesBrk ==
    /\ LastIsRti =>
          /\ reg.P = WithoutBreak(StackByteBefore(last.pre.reg.SP + 1))
          /\ reg.PC = StackByteBefore(last.pre.reg.SP + 2)
                      + 256 * StackByteBefore(last.pre.reg.SP + 3)
          /\ reg.SP = (last.pre.reg.SP + 3) % 256
          /\ log = <<<<"r", last.pre.reg.PC>>,
                     <<"r", StackPage + ((last.pre.reg.SP + 1) % 256)>>,
                     <<"r", StackPage + ((last.pre.reg.SP + 2) % 256)>>,
                     <<"r", StackPage + ((last.pre.reg.SP + 3) % 256)>>>>
    /\ LastIsRtiAfterBrk =>
          /\ reg.SP = last.prior.reg.SP
          /\ reg.P = WithoutBreak(last.prior.reg.P)
          /\ reg.PC = StackByteBefore(last.prior.reg.SP + 255)
                      + 256 * StackByteBefore(last.prior.reg.SP)

\* an RTI after a BRK that ran with SP = 0x01 and with the flags N, V and
\* C set: the three bytes were pushed at 0x0101, 0x0100 and 0x01FF
C38_Witness ==
    /\ LastIsRtiAfterBrk
    /\ last.prior.reg.SP = 1
    /\ last.pre.reg.SP = 254
    /\ reg.P = 225


\* ---------------------------------------------------------------------
\* C39: the stack page

StackFamilies == {"Pha", "Php", "Pla", "Plp", "Jsr", "Rts", "Brk", "Rti"}

\* the bus accesses of the last step other than the fetch of the instruction
\* bytes and the read of the interrupt vector
LastStackAccesses ==
    SelectSeq(log,
              LAMBDA e : e[2] \notin {last.pre.reg.PC,
                                      Word16(last.pre.reg.PC + 1),
                                      Word16(last.pre.reg.PC + 2),
                                      IrqVector, IrqVector + 1})

\* n pushes from SP: each writes at 0x0100 + SP and then lowers SP, mod 256
PushesFrom(sp, n) ==
    [i \in 1 .. n |-> <<"w", StackPage + ((sp + 256 - (i - 1)) % 256)>>]

\* n pulls from SP: each raises SP, mod 256, and then reads at 0x0100 + SP
PullsFrom(sp, n) == [i \in 1 .. n |-> <<"r", StackPage + ((sp + i) % 256)>>]

\* the number of bytes an instruction pushes, and the number it pulls
PushCount(fam) ==
    CASE fam \in {"Pha", "Php"} -> 1
      [] fam = "Jsr" -> 2
      [] fam = "Brk" -> 3
      [] OTHER -> 0

PullCount(fam) ==
    CASE fam \in {"Pla", "Plp"} -> 1
      [] fam = "Rts" -> 2
      [] fam = "Rti" -> 3
      [] OTHER -> 0

\* C39: a push writes at 0x0100 + SP and then sets SP to (SP - 1) mod 256, a
\* pull sets SP to (SP + 1) mod 256 and then reads 0x0100 + SP; so every
\* stack access of PHA, PHP, PLA, PLP, JSR, RTS, BRK and RTI addresses the
\* page [0x0100, 0x01FF] for every SP, also when SP wraps past 0x00 or 0xFF
C39_StackStaysInPageOne ==
    LastIsStep /\ last.ok /\ LastFam \in StackFamilies =>
       /\ LastStackAccesses =
             PushesFrom(last.pre.reg.SP, PushCount(LastFam))
             \o PullsFrom(last.pre.reg.SP, PullCount(LastFam))
       /\ reg.SP = (last.pre.reg.SP + 256 - PushCount(LastFam)
                    + PullCount(LastFam)) % 256
       /\ \A i \in 1 .. Len(LastStackAccesses) :
             LastStackAccesses[i][2] \in 256 .. 511

\* an RTS that started with SP = 0xFF: it pulled from 0x0100 and 0x0101
C39_Witness ==
    /\ LastIsStep /\ last.ok /\ LastFam = "Rts"
    /\ last.pre.reg.SP = 255
    /\ LastStackAccesses = <<<<"r", 256>>, <<"r", 257>>>>
    /\ reg.SP = 1


\* ---------------------------------------------------------------------
\* C40: the opcodes that have a handler

\* the documented instruction set of the MOS 6502: opcode, operation and
\* addressing mode ("ind" is the indirect mode of JMP)
Documented ==
    {<<0, "Brk", "impl">>, <<1, "Ora", "indx">>, <<5, "Ora", "zp">>,
     <<6, "Asl", "zp">>, <<8, "Php", "impl">>, <<9, "Ora", "imm">>,
     <<10, "Asl", "acc">>, <<13, "Ora", "abs">>, <<14, "Asl", "abs">>,
     <<16, "Bpl", "rel">>, <<17, "Ora", "indy">>, <<21, "Ora", "zpx">>,
     <<22, "Asl", "zpx">>, <<24, "Clc", "impl">>, <<25, "Ora", "absy">>,
     <<29, "Ora", "absx">>, <<30, "Asl", "absx">>, <<32, "Jsr", "abs">>,
     <<33, "And", "indx">>, <<36, "Bit", "zp">>, <<37, "And", "zp">>,
     <<38, "Rol", "zp">>, <<40, "Plp", "impl">>, <<41, "And", "imm">>,
     <<42, "Rol", "acc">>, <<44, "Bit", "abs">>, <<45, "And", "abs">>,
     <<46, "Rol", "abs">>, <<48, "Bmi", "rel">>, <<49, "And", "indy">>,
     <<53, "And", "zpx">>, <<54, "Rol", "zpx">>, <<56, "Sec", "impl">>,
     <<57, "And", "absy">>, <<61, "And", "absx">>, <<62, "Rol", "absx">>,
     <<64, "Rti", "impl">>, <<65, "Eor", "indx">>, <<69, "Eor", "zp">>,
     <<70, "Lsr", "zp">>, <<72, "Pha", "impl">>, <<73, "Eor", "imm">>,
     <<74, "Lsr", "acc">>, <<76, "Jmp", "abs">>, <<77, "Eor", "abs">>,
     <<78, "Lsr", "abs">>, <<80, "Bvc", "rel">>, <<81, "Eor", "indy">>,
     <<85, "Eor", "zpx">>, <<86, "Lsr", "zpx">>, <<88, "Cli", "impl">>,
     <<89, "Eor", "absy">>, <<93, "Eor", "absx">>, <<94, "Lsr", "absx">>,
     <<96, "Rts", "impl">>, <<97, "Adc", "indx">>, <<101, "Adc", "zp">>,
     <<102, "Ror", "zp">>, <<104, "Pla", "impl">>, <<105, "Adc", "imm">>,
     <<106, "Ror", "acc">>, <<108, "Jmp", "ind">>, <<109, "Adc", "abs">>,
     <<110, "Ror", "abs">>, <<112, "Bvs", "rel">>, <<113, "Adc", "indy">>,
     <<117, "Adc", "zpx">>, <<118, "Ror", "zpx">>, <<120, "Sei", "impl">>,
     <<121, "Adc", "absy">>, <<125, "Adc", "absx">>, <<126, "Ror", "absx">>,
     <<129, "Sta", "indx">>, <<132, "Sty", "zp">>, <<133, "Sta", "zp">>,
     <<134, "Stx", "zp">>, <<136, "Dey", "impl">>, <<138, "Txa", "impl">>,
     <<140, "Sty", "abs">>, <<141, "Sta", "abs">>, <<142, "Stx", "abs">>,
     <<144, "Bcc", "rel">>, <<145, "Sta", "indy">>, <<148, "Sty", "zpx">>,
     <<149, "Sta", "zpx">>, <<150, "Stx", "zpy">>, <<152, "Tya", "impl">>,
     <<153, "Sta", "absy">>, <<154, "Txs", "impl">>, <<157, "Sta", "absx">>,
     <<160, "Ldy", "imm">>, <<161, "Lda", "indx">>, <<162, "Ldx", "imm">>,
     <<164, "Ldy", "zp">>, <<165, "Lda", "zp">>, <<166, "Ldx", "zp">>,
     <<168, "Tay", "impl">>, <<169, "Lda", "imm">>, <<170, "Tax", "impl">>,
     <<172, "Ldy", "abs">>, <<173, "Lda", "abs">>, <<174, "Ldx", "abs">>,
     <<176, "Bcs", "rel">>, <<177, "Lda", "indy">>, <<180, "Ldy", "zpx">>,
     <<181, "Lda", "zpx">>, <<182, "Ldx", "zpy">>, <<184, "Clv", "impl">>,
     <<185, "Lda", "absy">>, <<186, "Tsx", "impl">>, <<188, "Ldy", "absx">>,
     <<189, "Lda", "absx">>, <<190, "Ldx", "absy">>, <<192, "Cpy", "imm">>,
     <<193, "Cmp", "indx">>, <<196, "Cpy", "zp">>, <<197, "Cmp", "zp">>,
     <<198, "Dec", "zp">>, <<200, "Iny", "impl">>, <<201, "Cmp", "imm">>,
     <<202, "Dex", "impl">>, <<204, "Cpy", "abs">>, <<205, "Cmp", "abs">>,
     <<206, "Dec", "abs">>, <<208, "Bne", "rel">>, <<209, "Cmp", "indy">>,
     <<213, "Cmp", "zpx">>, <<214, "Dec", "zpx">>, <<216, "Cld", "impl">>,
     <<217, "Cmp", "absy">>, <<221, "Cmp", "absx">>, <<222, "Dec", "absx">>,
     <<224, "Cpx", "imm">>, <<225, "Sbc", "indx">>, <<228, "Cpx", "zp">>,
     <<229, "Sbc", "zp">>, <<230, "Inc", "zp">>, <<232, "Inx", "impl">>,
     <<233, "Sbc", "imm">>, <<234, "Nop", "impl">>, <<236, "Cpx", "abs">>,
     <<237, "Sbc", "abs">>, <<238, "Inc", "abs">>, <<240, "Beq", "rel">>,
     <<241, "Sbc", "indy">>, <<245, "Sbc", "zpx">>, <<246, "Inc", "zpx">>,
     <<248, "Sed", "impl">>, <<249, "Sbc", "absy">>, <<253, "Sbc", "absx">>,
     <<254, "Inc", "absx">>}

DocumentedOpcodes == {d[1] : d \in Documented}

\* the addressing mode of a handler under its documented name: the two JMP
\* handlers and handleJsr take an absolute or an indirect operand
DocumentedMode(h) ==
    CASE h.mode = "jabs" -> "abs"
      [] h.mode = "jind" -> "ind"
      [] h.fam = "Jsr" -> "abs"
      [] OTHER -> h.mode

\* C40: a step returns true for exactly 151 of the 256 opcode byte values,
\* the documented MOS 6502 instruction set, each bound to its documented
\* operation and addressing mode, and false for each of the other 105
C40_LegalOpcodesAreTheDocumentedSet ==
    /\ Cardinality(DocumentedOpcodes) = 151
    /\ Cardinality(Byte \ DocumentedOpcodes) = 105
    /\ LastIsStep =>
          /\ last.ok <=> last.opcode \in DocumentedOpcodes
          /\ last.ok =>
                <<last.opcode, handlers_[last.opcode].fam,
                  DocumentedMode(handlers_[last.opcode])>> \in Documented

\* the undocumented opcode 0xFF was refused and the BRK that followed it was
\* run
C40_Witness ==
    /\ LastIsStep /\ last.ok /\ last.opcode = 0
    /\ last.prior.op = "step" /\ ~last.prior.ok /\ last.prior.opcode = 255

=============================================================================
